---- MODULE Spec2Model ----
\* Buffer ownership protocol and error channel of the Convert core library
\* (src/lib/src/memory.rs, src/lib/src/error.rs) together with the exported
\* conversions that use them.  Rust `String`s and C strings are modelled as
\* sequences of bytes (their UTF-8 encoding); the byte heap is modelled
\* address by address so that the two header words in front of every data
\* pointer are really stored in, and read back from, memory.
EXTENDS Integers, Sequences, FiniteSets, TLC

VARIABLES
  mem,         \* the byte heap: address -> byte value, or Uninit
  allocated,   \* blocks handed out by std::alloc::alloc and not yet dealloc'ed
  strings,     \* live CString allocations (CString::into_raw): pointer -> content
  LAST_ERROR,  \* the thread_local error slot: thread -> Option<String>
  frame,       \* each thread's call in progress (position and locals)
  hostBufs,    \* the host's buffers: returned data pointer -> bytes it asked for
  call,        \* the step just taken: thread, operation, argument, return value
  aborted,     \* a panic ended the process
  ub           \* a contract of alloc/dealloc/from_raw was violated

vars == <<mem, allocated, strings, LAST_ERROR, frame, hostBufs, call, aborted, ub>>

-----------------------------------------------------------------------------
\* Bounds of the model

\* longest byte sequence handed to allocate_byte_array
MaxLen == 2
\* number of addressable heap bytes (addresses 1..HeapSize)
HeapSize == 42
\* most buffers the host holds or has in flight at a time
MaxBufs == 2
\* most C strings the host holds at a time
MaxStrings == 1

Threads == {"A", "B"}
ByteVals == {0, 255}

-----------------------------------------------------------------------------
\* Platform constants and helpers

\* std::mem::size_of::<usize>()
USIZE == 8
\* std::mem::align_of::<usize>()
ALIGN_OF_USIZE == 8
\* std::ptr::null_mut()
NULL == 0
\* content of memory that was never written
Uninit == 0 - 1

Addrs == 1..HeapSize
StrPtrs == 1..MaxStrings

None == [some |-> FALSE, msg |-> <<>>]
Some(m) == [some |-> TRUE, msg |-> m]

Idle == [pc |-> "idle"]
\* the record of a step: who called what, with which pointer, and what came back
Called(t, op, arg, ret) == [t |-> t, op |-> op, arg |-> arg, ret |-> ret, msg |-> <<>>]
NoCall == Called("A", "none", NULL, NULL)

\* a `*const c_char` argument: null, or a NUL-terminated byte string
NullStr == [null |-> TRUE, bytes |-> <<>>]
CStr(bytes) == [null |-> FALSE, bytes |-> bytes]

RECURSIVE SeqsUpTo(_, _)
SeqsUpTo(S, n) ==
  IF n = 0 THEN {<<>>}
  ELSE LET shorter == SeqsUpTo(S, n - 1)
       IN shorter \cup {Append(s, x) : s \in {q \in shorter : Len(q) = n - 1}, x \in S}

ByteSeqs == SeqsUpTo(ByteVals, MaxLen)

Range(s) == {s[i] : i \in DOMAIN s}

\* v >> (8 * i)
RECURSIVE ShiftRightBytes(_, _)
ShiftRightBytes(v, i) == IF i = 0 THEN v ELSE ShiftRightBytes(v \div 256, i - 1)

\* *(a as *mut usize) = v, native (little-endian) byte order
WriteWord(m, a, v) ==
  [x \in DOMAIN m |->
     IF x \in a..(a + USIZE - 1) THEN ShiftRightBytes(v, x - a) % 256 ELSE m[x]]

\* *(a as *const usize)
RECURSIVE ReadWordFrom(_, _, _)
ReadWordFrom(m, a, i) ==
  IF i = USIZE THEN 0 ELSE m[a + i] + 256 * ReadWordFrom(m, a, i + 1)

ReadWord(m, a) == ReadWordFrom(m, a, 0)

WordReadable(m, a) ==
  \A x \in a..(a + USIZE - 1) : x \in DOMAIN m /\ m[x] # Uninit

\* a copy that stops one byte short
CopyBytes_short(m, dst, data) ==
  [x \in DOMAIN m |->
     IF x \in dst..(dst + Len(data) - 2) THEN data[x - dst + 1] ELSE m[x]]

\* std::ptr::copy_nonoverlapping(data.as_ptr(), dst, data.len())
CopyBytes(m, dst, data) ==
  [x \in DOMAIN m |->
     IF x \in dst..(dst + Len(data) - 1) THEN data[x - dst + 1] ELSE m[x]]

\* std::slice::from_raw_parts(p, n)
ReadBytes(m, p, n) == [i \in 1..n |-> m[p + i - 1]]

-----------------------------------------------------------------------------
\* The global allocator (std::alloc)

Layout(size, align) == [size |-> size, align |-> align]
Block(addr, layout) == [addr |-> addr, size |-> layout.size, align |-> layout.align]
Extent(b) == b.addr..(b.addr + b.size - 1)

\* an allocator that hands out addresses inside blocks that are still live
AllocCandidates_overlapping(layout) ==
  {a \in Addrs : a % layout.align = 0 /\ a + layout.size - 1 <= HeapSize}

\* addresses alloc(layout) may return: aligned, inside the heap, disjoint
\* from every live block
AllocCandidates(layout) ==
  {a \in Addrs :
     /\ a % layout.align = 0
     /\ a + layout.size - 1 <= HeapSize
     /\ \A b \in allocated : Extent(b) \cap (a..(a + layout.size - 1)) = {}}

\* dealloc(ptr, layout) is defined only for a live block of that very layout
DeallocOk(ptr, layout) == Block(ptr, layout) \in allocated

\* a dealloc that gives up everything from the block to the end of the heap
Scrub_to_end(m, b) == [x \in DOMAIN m |-> IF x >= b.addr THEN Uninit ELSE m[x]]

Scrub(m, b) == [x \in DOMAIN m |-> IF x \in Extent(b) THEN Uninit ELSE m[x]]

-----------------------------------------------------------------------------
\* memory.rs: allocate_byte_array

header_size == USIZE * 2

\* a total size that is off by one
aba_total_size_off_by_one(data_length) == header_size + data_length + 1

aba_total_size(data_length) == header_size + data_length

\* a layout aligned for u32 only
aba_layout_align4(total_size) == Layout(total_size, 4)

aba_layout(total_size) == Layout(total_size, ALIGN_OF_USIZE)

InFlight == {t \in Threads : frame[t].pc \in {"aba_hdr0", "aba_hdr1", "aba_copy"}}

\* allocate_byte_array handing the null of a failed alloc back to its caller
allocate_byte_array_returns_null(t, data) ==
  /\ ~aborted /\ ~ub
  /\ frame[t].pc = "idle"
  /\ Cardinality(DOMAIN hostBufs) + Cardinality(InFlight) < MaxBufs
  /\ LET data_length == Len(data)
         total_size == header_size + data_length
         layout == Layout(total_size, ALIGN_OF_USIZE)
     IN \/ \E ptr \in AllocCandidates(layout) :
             /\ allocated' = allocated \cup {Block(ptr, layout)}
             /\ frame' = [frame EXCEPT ![t] =
                            [pc |-> "aba_hdr0", data |-> data, ptr |-> ptr,
                             data_length |-> data_length, total_size |-> total_size]]
             /\ call' = Called(t, "allocate_byte_array:alloc", NULL, NULL)
             /\ UNCHANGED <<mem, strings, LAST_ERROR, hostBufs, aborted, ub>>
        \/ /\ call' = Called(t, "allocate_byte_array", NULL, NULL)
           /\ UNCHANGED <<mem, allocated, strings, LAST_ERROR, frame, hostBufs, aborted, ub>>

\* entry: sizes, layout, alloc(layout); a null result panics
allocate_byte_array(t, data) ==
  /\ ~aborted /\ ~ub
  /\ frame[t].pc = "idle"
  /\ Cardinality(DOMAIN hostBufs) + Cardinality(InFlight) < MaxBufs
  /\ LET data_length == Len(data)
         total_size == aba_total_size(data_length)
         layout == aba_layout(total_size)
     IN \/ \E ptr \in AllocCandidates(layout) :
             /\ allocated' = allocated \cup {Block(ptr, layout)}
             /\ frame' = [frame EXCEPT ![t] =
                            [pc |-> "aba_hdr0", data |-> data, ptr |-> ptr,
                             data_length |-> data_length, total_size |-> total_size]]
             /\ call' = Called(t, "allocate_byte_array:alloc", NULL, NULL)
             /\ UNCHANGED <<mem, strings, LAST_ERROR, hostBufs, aborted, ub>>
        \/ \* alloc returned null: panic!("Allocation failed")
           /\ aborted' = TRUE
           /\ call' = Called(t, "allocate_byte_array:panic", NULL, NULL)
           /\ UNCHANGED <<mem, allocated, strings, LAST_ERROR, frame, hostBufs, ub>>

\* *header_ptr = data_length
aba_write_length(t) ==
  /\ ~aborted /\ ~ub
  /\ frame[t].pc = "aba_hdr0"
  /\ mem' = WriteWord(mem, frame[t].ptr, frame[t].data_length)
  /\ frame' = [frame EXCEPT ![t].pc = "aba_hdr1"]
  /\ call' = Called(t, "allocate_byte_array:hdr0", NULL, NULL)
  /\ UNCHANGED <<allocated, strings, LAST_ERROR, hostBufs, aborted, ub>>

\* *header_ptr.add(1) = total_size
aba_write_total(t) ==
  /\ ~aborted /\ ~ub
  /\ frame[t].pc = "aba_hdr1"
  /\ mem' = WriteWord(mem, frame[t].ptr + USIZE, frame[t].total_size)
  /\ frame' = [frame EXCEPT ![t].pc = "aba_copy"]
  /\ call' = Called(t, "allocate_byte_array:hdr1", NULL, NULL)
  /\ UNCHANGED <<allocated, strings, LAST_ERROR, hostBufs, aborted, ub>>

\* returning the start of the block instead of the data behind the header
aba_data_ptr_at_header(ptr) == ptr

aba_data_ptr(ptr) == ptr + header_size

\* copy the data behind the header and return the data pointer to the caller
aba_copy_return(t) ==
  /\ ~aborted /\ ~ub
  /\ frame[t].pc = "aba_copy"
  /\ LET data_ptr == aba_data_ptr(frame[t].ptr)
     IN /\ mem' = CopyBytes(mem, data_ptr, frame[t].data)
        /\ hostBufs' = [p \in DOMAIN hostBufs \cup {data_ptr} |->
                          IF p = data_ptr THEN frame[t].data ELSE hostBufs[p]]
        /\ call' = Called(t, "allocate_byte_array", NULL, data_ptr)
  /\ frame' = [frame EXCEPT ![t] = Idle]
  /\ UNCHANGED <<allocated, strings, LAST_ERROR, aborted, ub>>

-----------------------------------------------------------------------------
\* memory.rs: free_bytes

\* taking the data pointer for the block start
fb_header_ptr_no_offset(ptr) == ptr

fb_header_ptr(ptr) == ptr - header_size

\* reading the first header word (data_length) instead of the second
fb_total_size_first_word(m, header_ptr) == ReadWord(m, header_ptr)

\* *metadata_ptr.add(1)
fb_total_size(m, header_ptr) == ReadWord(m, header_ptr + USIZE)

fb_layout(total_size) == Layout(total_size, ALIGN_OF_USIZE)

\* entry: the null check, then the read of the header in front of ptr.
\* The host passes null or a pointer it holds, and passes it once.
free_bytes(t, ptr) ==
  /\ ~aborted /\ ~ub
  /\ frame[t].pc = "idle"
  /\ ptr = NULL \/ ptr \in DOMAIN hostBufs
  /\ IF ptr = NULL
     THEN /\ call' = Called(t, "free_bytes", NULL, NULL)
          /\ UNCHANGED <<mem, allocated, strings, LAST_ERROR, frame, hostBufs, aborted, ub>>
     ELSE LET header_ptr == fb_header_ptr(ptr)
          IN IF WordReadable(mem, header_ptr + USIZE)
             THEN /\ frame' = [frame EXCEPT ![t] =
                                 [pc |-> "fb_dealloc", ptr |-> ptr, header_ptr |-> header_ptr,
                                  total_size |-> fb_total_size(mem, header_ptr)]]
                  /\ hostBufs' = [p \in DOMAIN hostBufs \ {ptr} |-> hostBufs[p]]
                  /\ call' = Called(t, "free_bytes:read", ptr, NULL)
                  /\ UNCHANGED <<mem, allocated, strings, LAST_ERROR, aborted, ub>>
             ELSE /\ ub' = TRUE
                  /\ call' = Called(t, "free_bytes:read", ptr, NULL)
                  /\ UNCHANGED <<mem, allocated, strings, LAST_ERROR, frame, hostBufs, aborted>>

\* dealloc(header_ptr, layout) and return
fb_dealloc(t) ==
  /\ ~aborted /\ ~ub
  /\ frame[t].pc = "fb_dealloc"
  /\ LET layout == fb_layout(frame[t].total_size)
         b == Block(frame[t].header_ptr, layout)
     IN IF DeallocOk(frame[t].header_ptr, layout)
        THEN /\ allocated' = allocated \ {b}
             /\ mem' = Scrub(mem, b)
             /\ UNCHANGED ub
        ELSE /\ ub' = TRUE
             /\ UNCHANGED <<allocated, mem>>
  /\ frame' = [frame EXCEPT ![t] = Idle]
  /\ call' = Called(t, "free_bytes", frame[t].ptr, NULL)
  /\ UNCHANGED <<strings, LAST_ERROR, hostBufs, aborted>>

-----------------------------------------------------------------------------
\* CString (std::ffi) and memory.rs: free_string

\* CString::new(bytes) fails on an interior NUL byte
CStringNewOk(bytes) == 0 \notin Range(bytes)

\* CString::into_raw: a fresh allocation holding the content
IntoRaw(ptr, content) ==
  /\ ptr \in StrPtrs \ DOMAIN strings
  /\ strings' = [p \in DOMAIN strings \cup {ptr} |->
                   IF p = ptr THEN content ELSE strings[p]]

\* free_string without its null check: CString::from_raw(null)
free_string_no_null_check(t, ptr) ==
  /\ ~aborted /\ ~ub
  /\ frame[t].pc = "idle"
  /\ ptr = NULL \/ ptr \in DOMAIN strings
  /\ IF ptr # NULL
     THEN strings' = [p \in DOMAIN strings \ {ptr} |-> strings[p]] /\ UNCHANGED ub
     ELSE ub' = TRUE /\ UNCHANGED strings
  /\ call' = Called(t, "free_string", ptr, NULL)
  /\ UNCHANGED <<mem, allocated, LAST_ERROR, frame, hostBufs, aborted>>

free_string(t, ptr) ==
  /\ ~aborted /\ ~ub
  /\ frame[t].pc = "idle"
  /\ ptr = NULL \/ ptr \in DOMAIN strings
  /\ IF ptr # NULL
     THEN \* let _ = CString::from_raw(ptr)
          strings' = [p \in DOMAIN strings \ {ptr} |-> strings[p]]
     ELSE UNCHANGED strings
  /\ call' = Called(t, "free_string", ptr, NULL)
  /\ UNCHANGED <<mem, allocated, LAST_ERROR, frame, hostBufs, aborted, ub>>

-----------------------------------------------------------------------------
\* error.rs

\* the messages passed to set_error (UTF-8 bytes of the literals): those of the
\* crate's operations and, last, two of its tests
MSG ==
  [\* "String contains non-ASCII characters"
   NON_ASCII |->
     <<83, 116, 114, 105, 110, 103, 32, 99, 111, 110, 116, 97, 105, 110, 115, 32,
       110, 111, 110, 45, 65, 83, 67, 73, 73, 32, 99, 104, 97, 114, 97, 99, 116,
       101, 114, 115>>,
   \* "Unsupported encoding: "
   UNSUPPORTED |->
     <<85, 110, 115, 117, 112, 112, 111, 114, 116, 101, 100, 32, 101, 110, 99,
       111, 100, 105, 110, 103, 58, 32>>,
   \* "Input pointer is null"
   INPUT_NULL |->
     <<73, 110, 112, 117, 116, 32, 112, 111, 105, 110, 116, 101, 114, 32, 105,
       115, 32, 110, 117, 108, 108>>,
   \* "Encoding pointer is null"
   ENCODING_NULL |->
     <<69, 110, 99, 111, 100, 105, 110, 103, 32, 112, 111, 105, 110, 116, 101,
       114, 32, 105, 115, 32, 110, 117, 108, 108>>,
   \* "Invalid UTF-8 in input string"
   INPUT_UTF8 |->
     <<73, 110, 118, 97, 108, 105, 100, 32, 85, 84, 70, 45, 56, 32, 105, 110, 32,
       105, 110, 112, 117, 116, 32, 115, 116, 114, 105, 110, 103>>,
   \* "Invalid UTF-8 in encoding string"
   ENCODING_UTF8 |->
     <<73, 110, 118, 97, 108, 105, 100, 32, 85, 84, 70, 45, 56, 32, 105, 110, 32,
       101, 110, 99, 111, 100, 105, 110, 103, 32, 115, 116, 114, 105, 110, 103>>,
   \* "UTF7 encoding is deprecated and not supported"
   UTF7 |->
     <<85, 84, 70, 55, 32, 101, 110, 99, 111, 100, 105, 110, 103, 32, 105, 115,
       32, 100, 101, 112, 114, 101, 99, 97, 116, 101, 100, 32, 97, 110, 100, 32,
       110, 111, 116, 32, 115, 117, 112, 112, 111, 114, 116, 101, 100>>,
   \* "Failed to create C string from Base64 result"
   B64_CSTRING |->
     <<70, 97, 105, 108, 101, 100, 32, 116, 111, 32, 99, 114, 101, 97, 116, 101,
       32, 67, 32, 115, 116, 114, 105, 110, 103, 32, 102, 114, 111, 109, 32, 66,
       97, 115, 101, 54, 52, 32, 114, 101, 115, 117, 108, 116>>,
   \* "Failed to create C string"
   URL_CSTRING |->
     <<70, 97, 105, 108, 101, 100, 32, 116, 111, 32, 99, 114, 101, 97, 116, 101,
       32, 67, 32, 115, 116, 114, 105, 110, 103>>,
   \* "Invalid percent-encoding sequence"
   PERCENT_SEQUENCE |->
     <<73, 110, 118, 97, 108, 105, 100, 32, 112, 101, 114, 99, 101, 110, 116, 45,
       101, 110, 99, 111, 100, 105, 110, 103, 32, 115, 101, 113, 117, 101, 110,
       99, 101>>,
   \* "Invalid percent-encoding or non-UTF-8 result"
   PERCENT_RESULT |->
     <<73, 110, 118, 97, 108, 105, 100, 32, 112, 101, 114, 99, 101, 110, 116, 45,
       101, 110, 99, 111, 100, 105, 110, 103, 32, 111, 114, 32, 110, 111, 110,
       45, 85, 84, 70, 45, 56, 32, 114, 101, 115, 117, 108, 116>>,
   \* "Bytes pointer is null"
   BYTES_NULL |->
     <<66, 121, 116, 101, 115, 32, 112, 111, 105, 110, 116, 101, 114, 32, 105,
       115, 32, 110, 117, 108, 108>>,
   \* "Result string contains null byte"
   RESULT_NUL |->
     <<82, 101, 115, 117, 108, 116, 32, 115, 116, 114, 105, 110, 103, 32, 99,
       111, 110, 116, 97, 105, 110, 115, 32, 110, 117, 108, 108, 32, 98, 121,
       116, 101>>,
   \* "Invalid UTF-8 bytes: "
   UTF8_BYTES |->
     <<73, 110, 118, 97, 108, 105, 100, 32, 85, 84, 70, 45, 56, 32, 98, 121, 116,
       101, 115, 58, 32>>,
   \* "Bytes contain non-ASCII values"
   NON_ASCII_BYTES |->
     <<66, 121, 116, 101, 115, 32, 99, 111, 110, 116, 97, 105, 110, 32, 110, 111,
       110, 45, 65, 83, 67, 73, 73, 32, 118, 97, 108, 117, 101, 115>>,
   \* "Invalid UTF-16 byte length (must be even)"
   UTF16_LENGTH |->
     <<73, 110, 118, 97, 108, 105, 100, 32, 85, 84, 70, 45, 49, 54, 32, 98, 121,
       116, 101, 32, 108, 101, 110, 103, 116, 104, 32, 40, 109, 117, 115, 116,
       32, 98, 101, 32, 101, 118, 101, 110, 41>>,
   \* "Invalid UTF-16 bytes: "
   UTF16_BYTES |->
     <<73, 110, 118, 97, 108, 105, 100, 32, 85, 84, 70, 45, 49, 54, 32, 98, 121,
       116, 101, 115, 58, 32>>,
   \* "Invalid UTF-32 byte length (must be multiple of 4)"
   UTF32_LENGTH |->
     <<73, 110, 118, 97, 108, 105, 100, 32, 85, 84, 70, 45, 51, 50, 32, 98, 121,
       116, 101, 32, 108, 101, 110, 103, 116, 104, 32, 40, 109, 117, 115, 116,
       32, 98, 101, 32, 109, 117, 108, 116, 105, 112, 108, 101, 32, 111, 102, 32,
       52, 41>>,
   \* "Invalid UTF-32 code point: "
   UTF32_CODE_POINT |->
     <<73, 110, 118, 97, 108, 105, 100, 32, 85, 84, 70, 45, 51, 50, 32, 99, 111,
       100, 101, 32, 112, 111, 105, 110, 116, 58, 32>>,
   \* "Invalid UTF-16BE byte length (must be even)"
   UTF16BE_LENGTH |->
     <<73, 110, 118, 97, 108, 105, 100, 32, 85, 84, 70, 45, 49, 54, 66, 69, 32,
       98, 121, 116, 101, 32, 108, 101, 110, 103, 116, 104, 32, 40, 109, 117,
       115, 116, 32, 98, 101, 32, 101, 118, 101, 110, 41>>,
   \* "Invalid UTF-16BE bytes: "
   UTF16BE_BYTES |->
     <<73, 110, 118, 97, 108, 105, 100, 32, 85, 84, 70, 45, 49, 54, 66, 69, 32,
       98, 121, 116, 101, 115, 58, 32>>,
   \* "Failed to decode Base64: "
   B64_DECODE |->
     <<70, 97, 105, 108, 101, 100, 32, 116, 111, 32, 100, 101, 99, 111, 100, 101,
       32, 66, 97, 115, 101, 54, 52, 58, 32>>,
   \* "Compression write failed: "
   GZ_WRITE |->
     <<67, 111, 109, 112, 114, 101, 115, 115, 105, 111, 110, 32, 119, 114, 105,
       116, 101, 32, 102, 97, 105, 108, 101, 100, 58, 32>>,
   \* "Compression finish failed: "
   GZ_FINISH |->
     <<67, 111, 109, 112, 114, 101, 115, 115, 105, 111, 110, 32, 102, 105, 110,
       105, 115, 104, 32, 102, 97, 105, 108, 101, 100, 58, 32>>,
   \* "Byte array pointer is null"
   BYTE_ARRAY_NULL |->
     <<66, 121, 116, 101, 32, 97, 114, 114, 97, 121, 32, 112, 111, 105, 110, 116,
       101, 114, 32, 105, 115, 32, 110, 117, 108, 108>>,
   \* "Failed to create C string from decoded result"
   DECODED_CSTRING |->
     <<70, 97, 105, 108, 101, 100, 32, 116, 111, 32, 99, 114, 101, 97, 116, 101,
       32, 67, 32, 115, 116, 114, 105, 110, 103, 32, 102, 114, 111, 109, 32, 100,
       101, 99, 111, 100, 101, 100, 32, 114, 101, 115, 117, 108, 116>>,
   \* "Decompression failed: "
   GZ_DECODE |->
     <<68, 101, 99, 111, 109, 112, 114, 101, 115, 115, 105, 111, 110, 32, 102,
       97, 105, 108, 101, 100, 58, 32>>,
   \* "Failed to create C string from decompressed result"
   GZ_CSTRING |->
     <<70, 97, 105, 108, 101, 100, 32, 116, 111, 32, 99, 114, 101, 97, 116, 101,
       32, 67, 32, 115, 116, 114, 105, 110, 103, 32, 102, 114, 111, 109, 32, 100,
       101, 99, 111, 109, 112, 114, 101, 115, 115, 101, 100, 32, 114, 101, 115,
       117, 108, 116>>,
   \* "Algorithm pointer is null"
   ALGORITHM_NULL |->
     <<65, 108, 103, 111, 114, 105, 116, 104, 109, 32, 112, 111, 105, 110, 116,
       101, 114, 32, 105, 115, 32, 110, 117, 108, 108>>,
   \* "Key pointer is null"
   KEY_NULL |->
     <<75, 101, 121, 32, 112, 111, 105, 110, 116, 101, 114, 32, 105, 115, 32,
       110, 117, 108, 108>>,
   \* "Invalid UTF-8 in algorithm string"
   ALGORITHM_UTF8 |->
     <<73, 110, 118, 97, 108, 105, 100, 32, 85, 84, 70, 45, 56, 32, 105, 110, 32,
       97, 108, 103, 111, 114, 105, 116, 104, 109, 32, 115, 116, 114, 105, 110,
       103>>,
   \* "Unsupported algorithm: "
   UNSUPPORTED_ALGORITHM |->
     <<85, 110, 115, 117, 112, 112, 111, 114, 116, 101, 100, 32, 97, 108, 103,
       111, 114, 105, 116, 104, 109, 58, 32>>,
   \* ". Supported: MD5, SHA1, SHA256, SHA384, SHA512"
   SUPPORTED_LIST |->
     <<46, 32, 83, 117, 112, 112, 111, 114, 116, 101, 100, 58, 32, 77, 68, 53,
       44, 32, 83, 72, 65, 49, 44, 32, 83, 72, 65, 50, 53, 54, 44, 32, 83, 72,
       65, 51, 56, 52, 44, 32, 83, 72, 65, 53, 49, 50>>,
   \* "Failed to create C string from hash result"
   HASH_CSTRING |->
     <<70, 97, 105, 108, 101, 100, 32, 116, 111, 32, 99, 114, 101, 97, 116, 101,
       32, 67, 32, 115, 116, 114, 105, 110, 103, 32, 102, 114, 111, 109, 32, 104,
       97, 115, 104, 32, 114, 101, 115, 117, 108, 116>>,
   \* "Failed to create C string from HMAC result"
   HMAC_CSTRING |->
     <<70, 97, 105, 108, 101, 100, 32, 116, 111, 32, 99, 114, 101, 97, 116, 101,
       32, 67, 32, 115, 116, 114, 105, 110, 103, 32, 102, 114, 111, 109, 32, 72,
       77, 65, 67, 32, 114, 101, 115, 117, 108, 116>>,
   \* "Input bytes pointer is null"
   INPUT_BYTES_NULL |->
     <<73, 110, 112, 117, 116, 32, 98, 121, 116, 101, 115, 32, 112, 111, 105,
       110, 116, 101, 114, 32, 105, 115, 32, 110, 117, 108, 108>>,
   \* "A-error"
   A_ERROR |->
     <<65, 45, 101, 114, 114, 111, 114>>,
   \* "a\0b"
   WITH_NUL |->
     <<97, 0, 98>>]

\* messages handed to set_error directly by Rust callers of the crate
Messages == {MSG.A_ERROR, MSG.WITH_NUL, <<>>}

\* *e.borrow_mut() = Some(message), on the calling thread's slot
SlotSet(slots, t, message) == [slots EXCEPT ![t] = Some(message)]

\* one slot shared by all threads instead of a thread_local
SlotClear_global(slots, t) == [u \in DOMAIN slots |-> None]

\* a clear that leaves the slot as it is
SlotClear_noop(slots, t) == slots

\* *e.borrow_mut() = None, on the calling thread's slot
SlotClear(slots, t) == [slots EXCEPT ![t] = None]

set_error(t, message) ==
  /\ ~aborted /\ ~ub
  /\ frame[t].pc = "idle"
  /\ LAST_ERROR' = SlotSet(LAST_ERROR, t, message)
  /\ call' = [Called(t, "set_error", NULL, NULL) EXCEPT !.msg = message]
  /\ UNCHANGED <<mem, allocated, strings, frame, hostBufs, aborted, ub>>

clear_error(t) ==
  /\ ~aborted /\ ~ub
  /\ frame[t].pc = "idle"
  /\ LAST_ERROR' = SlotClear(LAST_ERROR, t)
  /\ call' = Called(t, "clear_error", NULL, NULL)
  /\ UNCHANGED <<mem, allocated, strings, frame, hostBufs, aborted, ub>>

\* what get_last_error hands back: a message for into_raw, or null
gle_result(slot) ==
  IF slot.some
  THEN IF CStringNewOk(slot.msg) THEN [null |-> FALSE, content |-> slot.msg]
       ELSE [null |-> TRUE, content |-> <<>>]
  ELSE [null |-> TRUE, content |-> <<>>]

get_last_error(t) ==
  /\ ~aborted /\ ~ub
  /\ frame[t].pc = "idle"
  /\ LET r == gle_result(LAST_ERROR[t])
     IN IF r.null
        THEN /\ call' = Called(t, "get_last_error", NULL, NULL)
             /\ UNCHANGED strings
        ELSE \E ptr \in StrPtrs :
               /\ IntoRaw(ptr, r.content)
               /\ call' = Called(t, "get_last_error", NULL, ptr)
  /\ UNCHANGED <<mem, allocated, LAST_ERROR, frame, hostBufs, aborted, ub>>

-----------------------------------------------------------------------------
\* Rust strings: UTF-8 validation and decoding (CStr::to_str, str::chars)

IsCont(b) == b >= 128 /\ b <= 191

\* length of the well-formed UTF-8 sequence at the head of s, 0 if there is none
Utf8HeadLen(s) ==
  LET n == Len(s)
      b1 == s[1]
  IN IF b1 < 128 THEN 1
     ELSE IF b1 >= 194 /\ b1 <= 223
       THEN IF n >= 2 /\ IsCont(s[2]) THEN 2 ELSE 0
     ELSE IF b1 >= 224 /\ b1 <= 239
       THEN IF /\ n >= 3
               /\ IsCont(s[2]) /\ IsCont(s[3])
               /\ (b1 = 224 => s[2] >= 160)
               /\ (b1 = 237 => s[2] <= 159)
            THEN 3 ELSE 0
     ELSE IF b1 >= 240 /\ b1 <= 244
       THEN IF /\ n >= 4
               /\ IsCont(s[2]) /\ IsCont(s[3]) /\ IsCont(s[4])
               /\ (b1 = 240 => s[2] >= 144)
               /\ (b1 = 244 => s[2] <= 143)
            THEN 4 ELSE 0
     ELSE 0

\* CStr::to_str(): Ok exactly for well-formed UTF-8
RECURSIVE Utf8Valid(_)
Utf8Valid(s) ==
  IF s = <<>> THEN TRUE
  ELSE LET k == Utf8HeadLen(s)
       IN k > 0 /\ Utf8Valid(SubSeq(s, k + 1, Len(s)))

\* the code point encoded by the k bytes at the head of s
Utf8HeadChar(s, k) ==
  IF k = 1 THEN s[1]
  ELSE IF k = 2 THEN (s[1] % 32) * 64 + (s[2] % 64)
  ELSE IF k = 3 THEN ((s[1] % 16) * 64 + (s[2] % 64)) * 64 + (s[3] % 64)
  ELSE (((s[1] % 8) * 64 + (s[2] % 64)) * 64 + (s[3] % 64)) * 64 + (s[4] % 64)

\* str::chars() of a valid string
RECURSIVE Chars(_)
Chars(s) ==
  IF s = <<>> THEN <<>>
  ELSE LET k == Utf8HeadLen(s)
       IN <<Utf8HeadChar(s, k)>> \o Chars(SubSeq(s, k + 1, Len(s)))

\* str::encode_utf16()
RECURSIVE EncodeUtf16(_)
EncodeUtf16(cs) ==
  IF cs = <<>> THEN <<>>
  ELSE LET c == Head(cs)
       IN (IF c < 65536 THEN <<c>>
           ELSE <<55296 + ((c - 65536) \div 1024), 56320 + ((c - 65536) % 1024)>>)
          \o EncodeUtf16(Tail(cs))

\* u8::to_ascii_uppercase
ToAsciiUpper(b) == IF b >= 97 /\ b <= 122 THEN b - 32 ELSE b

\* str::eq_ignore_ascii_case
EqIgnoreAsciiCase(a, b) ==
  /\ Len(a) = Len(b)
  /\ \A i \in DOMAIN a : ToAsciiUpper(a[i]) = ToAsciiUpper(b[i])

\* str::is_ascii
IsAscii(s) == \A i \in DOMAIN s : s[i] < 128

-----------------------------------------------------------------------------
\* base64/encoding.rs: convert_string_to_bytes

\* the encoding names the crate compares with (eq_ignore_ascii_case)
ENC ==
  [UTF8 |-> <<85, 84, 70, 56>>,
   UTF_8 |-> <<85, 84, 70, 45, 56>>,
   ASCII |-> <<65, 83, 67, 73, 73>>,
   UNICODE |-> <<85, 78, 73, 67, 79, 68, 69>>,
   UTF16 |-> <<85, 84, 70, 49, 54>>,
   UTF_16 |-> <<85, 84, 70, 45, 49, 54>>,
   UTF32 |-> <<85, 84, 70, 51, 50>>,
   UTF_32 |-> <<85, 84, 70, 45, 51, 50>>,
   BIGENDIANUNICODE |-> <<66, 73, 71, 69, 78, 68, 73, 65, 78, 85, 78, 73, 67, 79,
                             68, 69>>,
   UTF16BE |-> <<85, 84, 70, 49, 54, 66, 69>>,
   UTF_16BE |-> <<85, 84, 70, 45, 49, 54, 66, 69>>,
   DEFAULT |-> <<68, 69, 70, 65, 85, 76, 84>>,
   ISO_8859_1 |-> <<73, 83, 79, 45, 56, 56, 53, 57, 45, 49>>,
   LATIN1 |-> <<76, 65, 84, 73, 78, 49>>,
   LATIN_1 |-> <<76, 65, 84, 73, 78, 45, 49>>,
   UTF7 |-> <<85, 84, 70, 55>>,
   UTF_7 |-> <<85, 84, 70, 45, 55>>]


Ok(v) == [ok |-> TRUE, val |-> v]
Err(e) == [ok |-> FALSE, val |-> e]

\* bytes.push((word & 0xFF) as u8); bytes.push((word >> 8) as u8), for each word
RECURSIVE Utf16LeBytes(_)
Utf16LeBytes(words) ==
  IF words = <<>> THEN <<>>
  ELSE <<Head(words) % 256, Head(words) \div 256>> \o Utf16LeBytes(Tail(words))

\* bytes.push((word >> 8) as u8); bytes.push((word & 0xFF) as u8), for each word
RECURSIVE Utf16BeBytes(_)
Utf16BeBytes(words) ==
  IF words = <<>> THEN <<>>
  ELSE <<Head(words) \div 256, Head(words) % 256>> \o Utf16BeBytes(Tail(words))

\* the four bytes of each code point, least significant first
RECURSIVE Utf32LeBytes(_)
Utf32LeBytes(cps) ==
  IF cps = <<>> THEN <<>>
  ELSE LET cp == Head(cps)
       IN <<cp % 256, (cp \div 256) % 256, (cp \div 65536) % 256, (cp \div 16777216) % 256>>
          \o Utf32LeBytes(Tail(cps))

convert_string_to_bytes(input, encoding) ==
  IF EqIgnoreAsciiCase(encoding, ENC.UTF8) \/ EqIgnoreAsciiCase(encoding, ENC.UTF_8)
  THEN Ok(input)
  ELSE IF EqIgnoreAsciiCase(encoding, ENC.ASCII)
  THEN IF IsAscii(input) THEN Ok(input) ELSE Err(MSG.NON_ASCII)
  ELSE IF \/ EqIgnoreAsciiCase(encoding, ENC.UNICODE)
          \/ EqIgnoreAsciiCase(encoding, ENC.UTF16)
          \/ EqIgnoreAsciiCase(encoding, ENC.UTF_16)
  THEN Ok(Utf16LeBytes(EncodeUtf16(Chars(input))))
  ELSE IF EqIgnoreAsciiCase(encoding, ENC.UTF32) \/ EqIgnoreAsciiCase(encoding, ENC.UTF_32)
  THEN Ok(Utf32LeBytes(Chars(input)))
  ELSE IF \/ EqIgnoreAsciiCase(encoding, ENC.BIGENDIANUNICODE)
          \/ EqIgnoreAsciiCase(encoding, ENC.UTF16BE)
          \/ EqIgnoreAsciiCase(encoding, ENC.UTF_16BE)
  THEN Ok(Utf16BeBytes(EncodeUtf16(Chars(input))))
  ELSE IF EqIgnoreAsciiCase(encoding, ENC.DEFAULT)
  THEN Ok(input)
  ELSE Err(MSG.UNSUPPORTED \o encoding)

-----------------------------------------------------------------------------
\* base64 crate: general_purpose::STANDARD.encode

\* "ABCDEFGHIJKLMNOPQRSTUVWXYZabcdefghijklmnopqrstuvwxyz0123456789+/"
B64_ALPHABET ==
  <<65, 66, 67, 68, 69, 70, 71, 72, 73, 74, 75, 76, 77, 78, 79, 80, 81, 82, 83, 84, 85, 86,
    87, 88, 89, 90, 97, 98, 99, 100, 101, 102, 103, 104, 105, 106, 107, 108, 109, 110, 111,
    112, 113, 114, 115, 116, 117, 118, 119, 120, 121, 122, 48, 49, 50, 51, 52, 53, 54, 55,
    56, 57, 43, 47>>

B64Char(n) == B64_ALPHABET[n + 1]

RECURSIVE Base64Encode(_)
Base64Encode(bytes) ==
  IF Len(bytes) = 0 THEN <<>>
  ELSE IF Len(bytes) = 1
  THEN <<B64Char(bytes[1] \div 4), B64Char((bytes[1] % 4) * 16), 61, 61>>
  ELSE IF Len(bytes) = 2
  THEN <<B64Char(bytes[1] \div 4),
         B64Char((bytes[1] % 4) * 16 + bytes[2] \div 16),
         B64Char((bytes[2] % 16) * 4), 61>>
  ELSE <<B64Char(bytes[1] \div 4),
         B64Char((bytes[1] % 4) * 16 + bytes[2] \div 16),
         B64Char((bytes[2] % 16) * 4 + bytes[3] \div 64),
         B64Char(bytes[3] % 64)>>
       \o Base64Encode(SubSeq(bytes, 4, Len(bytes)))

-----------------------------------------------------------------------------
\* Returning from an exported string operation

\* return std::ptr::null_mut() after set_error(message)
FailWith(t, op, message) ==
  /\ LAST_ERROR' = SlotSet(LAST_ERROR, t, message)
  /\ call' = Called(t, op, NULL, NULL)
  /\ UNCHANGED strings

\* return std::ptr::null_mut() with the slot left as it is
ReturnNull(t, op) ==
  /\ call' = Called(t, op, NULL, NULL)
  /\ UNCHANGED <<strings, LAST_ERROR>>

\* clear_error(); c_str.into_raw()
ReturnStringCleared(t, op, content) ==
  /\ LAST_ERROR' = SlotClear(LAST_ERROR, t)
  /\ \E ptr \in StrPtrs :
       /\ IntoRaw(ptr, content)
       /\ call' = Called(t, op, NULL, ptr)

\* c_str.into_raw() with the slot left as it is
ReturnString(t, op, content) ==
  /\ UNCHANGED LAST_ERROR
  /\ \E ptr \in StrPtrs :
       /\ IntoRaw(ptr, content)
       /\ call' = Called(t, op, NULL, ptr)


-----------------------------------------------------------------------------
\* base64/string_ops.rs: string_to_base64

string_to_base64(t, input, encoding) ==
  /\ ~aborted /\ ~ub
  /\ frame[t].pc = "idle"
  /\ IF input.null THEN FailWith(t, "string_to_base64", MSG.INPUT_NULL)
     ELSE IF encoding.null THEN FailWith(t, "string_to_base64", MSG.ENCODING_NULL)
     ELSE IF ~Utf8Valid(input.bytes) THEN FailWith(t, "string_to_base64", MSG.INPUT_UTF8)
     ELSE IF ~Utf8Valid(encoding.bytes)
       THEN FailWith(t, "string_to_base64", MSG.ENCODING_UTF8)
     ELSE IF \/ EqIgnoreAsciiCase(encoding.bytes, ENC.UTF7)
             \/ EqIgnoreAsciiCase(encoding.bytes, ENC.UTF_7)
       THEN FailWith(t, "string_to_base64", MSG.UTF7)
     ELSE LET bytes == convert_string_to_bytes(input.bytes, encoding.bytes)
          IN IF ~bytes.ok THEN FailWith(t, "string_to_base64", bytes.val)
             ELSE LET encoded == Base64Encode(bytes.val)
                  IN IF CStringNewOk(encoded)
                     THEN ReturnStringCleared(t, "string_to_base64", encoded)
                     ELSE FailWith(t, "string_to_base64", MSG.B64_CSTRING)
  /\ UNCHANGED <<mem, allocated, frame, hostBufs, aborted, ub>>

-----------------------------------------------------------------------------
\* url.rs: url_encode

\* the set FRAGMENT: percent_encoding::CONTROLS and the bytes added to it,
\* space " < > ` # ? { } % / : ; = @ [ \ ] ^ | & + , $ ! ' ( ) ~
InFragment(b) ==
  \/ b <= 31 \/ b = 127
  \/ b \in {32, 34, 60, 62, 96, 35, 63, 123, 125, 37, 47, 58, 59, 61, 64, 91, 92, 93, 94,
            124, 38, 43, 44, 36, 33, 39, 40, 41, 126}

HexUpper(n) == IF n < 10 THEN 48 + n ELSE 55 + n

\* percent_encoding::utf8_percent_encode, one byte
PercentEncodeByte(b) ==
  IF b >= 128 \/ InFragment(b) THEN <<37, HexUpper(b \div 16), HexUpper(b % 16)>>
  ELSE <<b>>

RECURSIVE utf8_percent_encode(_)
utf8_percent_encode(input) ==
  IF input = <<>> THEN <<>>
  ELSE PercentEncodeByte(Head(input)) \o utf8_percent_encode(Tail(input))

url_encode(t, input) ==
  /\ ~aborted /\ ~ub
  /\ frame[t].pc = "idle"
  /\ IF input.null THEN ReturnNull(t, "url_encode")
     ELSE IF ~Utf8Valid(input.bytes) THEN FailWith(t, "url_encode", MSG.INPUT_UTF8)
     ELSE LET encoded == utf8_percent_encode(input.bytes)
          IN IF CStringNewOk(encoded)
             THEN \* c_str.into_raw(); the record of the call keeps the input
                  /\ UNCHANGED LAST_ERROR
                  /\ \E ptr \in StrPtrs :
                       /\ IntoRaw(ptr, encoded)
                       /\ call' = [Called(t, "url_encode", NULL, ptr)
                                    EXCEPT !.msg = input.bytes]
             ELSE FailWith(t, "url_encode", MSG.URL_CSTRING)
  /\ UNCHANGED <<mem, allocated, frame, hostBufs, aborted, ub>>

-----------------------------------------------------------------------------
\* url.rs: url_decode

\* char::is_ascii_hexdigit
IsAsciiHexDigit(c) == c \in (48..57) \cup (65..70) \cup (97..102)

\* value of a hexadecimal digit
HexVal(c) == IF c <= 57 THEN c - 48 ELSE IF c <= 70 THEN c - 55 ELSE c - 87

\* the validation loop over input_str.chars(): every '%' is followed by two
\* characters, both hexadecimal digits
RECURSIVE percent_sequences_valid(_)
percent_sequences_valid(cs) ==
  IF cs = <<>> THEN TRUE
  ELSE IF Head(cs) = 37
    THEN /\ Len(cs) >= 3
         /\ IsAsciiHexDigit(cs[2]) /\ IsAsciiHexDigit(cs[3])
         /\ percent_sequences_valid(SubSeq(cs, 4, Len(cs)))
    ELSE percent_sequences_valid(Tail(cs))

\* percent_encoding::percent_decode_str: the bytes of the decoded string
RECURSIVE percent_decode(_)
percent_decode(bytes) ==
  IF bytes = <<>> THEN <<>>
  ELSE IF /\ Head(bytes) = 37 /\ Len(bytes) >= 3
          /\ IsAsciiHexDigit(bytes[2]) /\ IsAsciiHexDigit(bytes[3])
    THEN <<HexVal(bytes[2]) * 16 + HexVal(bytes[3])>>
         \o percent_decode(SubSeq(bytes, 4, Len(bytes)))
    ELSE <<Head(bytes)>> \o percent_decode(Tail(bytes))

url_decode(t, input) ==
  /\ ~aborted /\ ~ub
  /\ frame[t].pc = "idle"
  /\ IF input.null THEN ReturnNull(t, "url_decode")
     ELSE IF ~Utf8Valid(input.bytes) THEN FailWith(t, "url_decode", MSG.INPUT_UTF8)
     ELSE IF ~percent_sequences_valid(Chars(input.bytes))
       THEN FailWith(t, "url_decode", MSG.PERCENT_SEQUENCE)
     ELSE LET decoded == percent_decode(input.bytes)
          IN IF ~Utf8Valid(decoded)
             THEN FailWith(t, "url_decode", MSG.PERCENT_RESULT)
             ELSE IF CStringNewOk(decoded)
               THEN ReturnString(t, "url_decode", decoded)
               ELSE FailWith(t, "url_decode", MSG.URL_CSTRING)
  /\ UNCHANGED <<mem, allocated, frame, hostBufs, aborted, ub>>

-----------------------------------------------------------------------------
\* base64/encoding.rs: convert_bytes_to_string, and
\* encoding/bytes_to_string.rs: bytes_to_string_lenient

\* str::contains
Contains(s, pat) ==
  \E i \in 0..(Len(s) - Len(pat)) : SubSeq(s, i + 1, i + Len(pat)) = pat

\* String::push / collect::<String>(): the UTF-8 bytes of a sequence of chars
RECURSIVE EncodeUtf8(_)
EncodeUtf8(cs) ==
  IF cs = <<>> THEN <<>>
  ELSE LET c == Head(cs)
       IN (IF c < 128 THEN <<c>>
           ELSE IF c < 2048 THEN <<192 + (c \div 64), 128 + (c % 64)>>
           ELSE IF c < 65536
             THEN <<224 + (c \div 4096), 128 + ((c \div 64) % 64), 128 + (c % 64)>>
           ELSE <<240 + (c \div 262144), 128 + ((c \div 4096) % 64),
                  128 + ((c \div 64) % 64), 128 + (c % 64)>>)
          \o EncodeUtf8(Tail(cs))

\* chunks_exact(2) with u16::from_le_bytes or u16::from_be_bytes
RECURSIVE Utf16Words(_, _)
Utf16Words(bytes, big_endian) ==
  IF Len(bytes) < 2 THEN <<>>
  ELSE <<IF big_endian THEN bytes[1] * 256 + bytes[2] ELSE bytes[2] * 256 + bytes[1]>>
       \o Utf16Words(SubSeq(bytes, 3, Len(bytes)), big_endian)

\* String::from_utf16: the chars of well-paired words; Err on a lone surrogate
RECURSIVE from_utf16(_)
from_utf16(words) ==
  IF words = <<>> THEN Ok(<<>>)
  ELSE LET w == Head(words)
       IN IF w < 55296 \/ w > 57343
          THEN LET rest == from_utf16(Tail(words))
               IN IF rest.ok THEN Ok(<<w>> \o rest.val) ELSE rest
          ELSE IF w <= 56319 /\ Len(words) >= 2 /\ words[2] >= 56320 /\ words[2] <= 57343
          THEN LET rest == from_utf16(SubSeq(words, 3, Len(words)))
               IN IF rest.ok
                  THEN Ok(<<65536 + (w - 55296) * 1024 + (words[2] - 56320)>> \o rest.val)
                  ELSE rest
          ELSE Err(<<>>)

\* chunks_exact(4) with u32::from_le_bytes and char::from_u32: Err on a value
\* that is no char (a surrogate, or above 0x10FFFF)
RECURSIVE from_utf32(_)
from_utf32(bytes) ==
  IF Len(bytes) < 4 THEN Ok(<<>>)
  ELSE LET low == bytes[1] + 256 * bytes[2] + 65536 * bytes[3]
       IN IF bytes[4] # 0 \/ low >= 1114112 \/ (low >= 55296 /\ low <= 57343)
          THEN Err(MSG.UTF32_CODE_POINT)
          ELSE LET rest == from_utf32(SubSeq(bytes, 5, Len(bytes)))
               IN IF rest.ok THEN Ok(<<low>> \o rest.val) ELSE rest

\* bytes.iter().map(|&b| if b == 0 { '\u{FFFD}' } else { b as char }).collect()
Latin1String(bytes) ==
  EncodeUtf8([i \in DOMAIN bytes |-> IF bytes[i] = 0 THEN 65533 ELSE bytes[i]])

\* The Ok value is the String's UTF-8 bytes.  A message that ends with the
\* library's own description of the error ({e}, {code_point}) is cut off
\* after the crate's literal.
convert_bytes_to_string(bytes, encoding) ==
  IF \/ EqIgnoreAsciiCase(encoding, ENC.UTF8) \/ EqIgnoreAsciiCase(encoding, ENC.UTF_8)
     \/ EqIgnoreAsciiCase(encoding, ENC.DEFAULT)
  THEN IF Utf8Valid(bytes) THEN Ok(bytes) ELSE Err(MSG.UTF8_BYTES)
  ELSE IF EqIgnoreAsciiCase(encoding, ENC.ASCII)
  THEN IF IsAscii(bytes) THEN Ok(bytes) ELSE Err(MSG.NON_ASCII_BYTES)
  ELSE IF \/ EqIgnoreAsciiCase(encoding, ENC.UNICODE)
          \/ EqIgnoreAsciiCase(encoding, ENC.UTF16)
          \/ EqIgnoreAsciiCase(encoding, ENC.UTF_16)
  THEN IF Len(bytes) % 2 # 0 THEN Err(MSG.UTF16_LENGTH)
       ELSE LET s == from_utf16(Utf16Words(bytes, FALSE))
            IN IF s.ok THEN Ok(EncodeUtf8(s.val)) ELSE Err(MSG.UTF16_BYTES)
  ELSE IF EqIgnoreAsciiCase(encoding, ENC.UTF32) \/ EqIgnoreAsciiCase(encoding, ENC.UTF_32)
  THEN IF Len(bytes) % 4 # 0 THEN Err(MSG.UTF32_LENGTH)
       ELSE LET s == from_utf32(bytes)
            IN IF s.ok THEN Ok(EncodeUtf8(s.val)) ELSE s
  ELSE IF \/ EqIgnoreAsciiCase(encoding, ENC.BIGENDIANUNICODE)
          \/ EqIgnoreAsciiCase(encoding, ENC.UTF16BE)
          \/ EqIgnoreAsciiCase(encoding, ENC.UTF_16BE)
  THEN IF Len(bytes) % 2 # 0 THEN Err(MSG.UTF16BE_LENGTH)
       ELSE LET s == from_utf16(Utf16Words(bytes, TRUE))
            IN IF s.ok THEN Ok(EncodeUtf8(s.val)) ELSE Err(MSG.UTF16BE_BYTES)
  ELSE IF \/ EqIgnoreAsciiCase(encoding, ENC.ISO_8859_1)
          \/ EqIgnoreAsciiCase(encoding, ENC.LATIN1)
          \/ EqIgnoreAsciiCase(encoding, ENC.LATIN_1)
  THEN Ok(Latin1String(bytes))
  ELSE Err(MSG.UNSUPPORTED \o encoding)

convert_bytes_to_string_with_fallback(bytes, encoding) ==
  LET r == convert_bytes_to_string(bytes, encoding)
      \* "Invalid UTF-8", "Invalid ASCII", "Invalid UTF-16", "Invalid UTF-32",
      \* "non-ASCII values"
      patterns == {<<73, 110, 118, 97, 108, 105, 100, 32, 85, 84, 70, 45, 56>>,
                   <<73, 110, 118, 97, 108, 105, 100, 32, 65, 83, 67, 73, 73>>,
                   <<73, 110, 118, 97, 108, 105, 100, 32, 85, 84, 70, 45, 49, 54>>,
                   <<73, 110, 118, 97, 108, 105, 100, 32, 85, 84, 70, 45, 51, 50>>,
                   <<110, 111, 110, 45, 65, 83, 67, 73, 73, 32, 118, 97, 108, 117, 101,
                     115>>}
  IN IF r.ok THEN r
     ELSE IF \E pat \in patterns : Contains(r.val, pat) THEN Ok(Latin1String(bytes))
     ELSE r

\* a `*const u8` argument: null, or the bytes it points to
NullBytes == [null |-> TRUE, bytes |-> <<>>]

\* bytes_to_string with the null test of `bytes` ahead of the length test
bytes_to_string_null_first(t, bytes, length, encoding) ==
  /\ ~aborted /\ ~ub
  /\ frame[t].pc = "idle"
  /\ bytes.null \/ length <= Len(bytes.bytes)
  /\ LET result ==
           IF encoding.null THEN Err(MSG.ENCODING_NULL)
           ELSE IF ~Utf8Valid(encoding.bytes) THEN Err(MSG.ENCODING_UTF8)
           ELSE IF bytes.null THEN Err(MSG.BYTES_NULL)
           ELSE IF length = 0 THEN Ok(<<>>)
           ELSE IF \/ EqIgnoreAsciiCase(encoding.bytes, ENC.UTF7)
                   \/ EqIgnoreAsciiCase(encoding.bytes, ENC.UTF_7)
             THEN Err(MSG.UTF7)
           ELSE LET result_string ==
                      convert_bytes_to_string(SubSeq(bytes.bytes, 1, length), encoding.bytes)
                IN IF ~result_string.ok THEN result_string
                   ELSE IF CStringNewOk(result_string.val) THEN result_string
                   ELSE Err(MSG.RESULT_NUL)
     IN IF result.ok
        THEN /\ LAST_ERROR' = SlotClear(LAST_ERROR, t)
             /\ \E ptr \in StrPtrs :
                  /\ IntoRaw(ptr, result.val)
                  /\ call' = [Called(t, "bytes_to_string", NULL, ptr)
                               EXCEPT !.msg = <<bytes, length, encoding>>]
        ELSE /\ LAST_ERROR' = SlotSet(LAST_ERROR, t, result.val)
             /\ call' = [Called(t, "bytes_to_string", NULL, NULL)
                          EXCEPT !.msg = <<bytes, length, encoding>>]
             /\ UNCHANGED strings
  /\ UNCHANGED <<mem, allocated, frame, hostBufs, aborted, ub>>

bytes_to_string(t, bytes, length, encoding) ==
  /\ ~aborted /\ ~ub
  /\ frame[t].pc = "idle"
  /\ bytes.null \/ length <= Len(bytes.bytes)
  /\ LET byte_slice == SubSeq(bytes.bytes, 1, length)
         \* Err(e): set_error(e) and return null;
         \* Ok(s): clear_error() and return CString::new(s).into_raw()
         result ==
           IF encoding.null THEN Err(MSG.ENCODING_NULL)
           ELSE IF ~Utf8Valid(encoding.bytes) THEN Err(MSG.ENCODING_UTF8)
           ELSE IF length = 0 THEN Ok(<<>>)
           ELSE IF bytes.null THEN Err(MSG.BYTES_NULL)
           ELSE IF \/ EqIgnoreAsciiCase(encoding.bytes, ENC.UTF7)
                   \/ EqIgnoreAsciiCase(encoding.bytes, ENC.UTF_7)
             THEN Err(MSG.UTF7)
           ELSE LET result_string == convert_bytes_to_string(byte_slice, encoding.bytes)
                IN IF ~result_string.ok THEN result_string
                   ELSE IF CStringNewOk(result_string.val) THEN result_string
                   ELSE Err(MSG.RESULT_NUL)
     IN IF result.ok
        THEN /\ LAST_ERROR' = SlotClear(LAST_ERROR, t)
             /\ \E ptr \in StrPtrs :
                  /\ IntoRaw(ptr, result.val)
                  /\ call' = [Called(t, "bytes_to_string", NULL, ptr)
                               EXCEPT !.msg = <<bytes, length, encoding>>]
        ELSE /\ LAST_ERROR' = SlotSet(LAST_ERROR, t, result.val)
             /\ call' = [Called(t, "bytes_to_string", NULL, NULL)
                          EXCEPT !.msg = <<bytes, length, encoding>>]
             /\ UNCHANGED strings
  /\ UNCHANGED <<mem, allocated, frame, hostBufs, aborted, ub>>

bytes_to_string_lenient(t, bytes, length, encoding) ==
  /\ ~aborted /\ ~ub
  /\ frame[t].pc = "idle"
  /\ bytes.null \/ length <= Len(bytes.bytes)
  /\ LET byte_slice == SubSeq(bytes.bytes, 1, length)
         \* Err(e): set_error(e) and return null;
         \* Ok(s): clear_error() and return CString::new(s).into_raw()
         result ==
           IF encoding.null THEN Err(MSG.ENCODING_NULL)
           ELSE IF ~Utf8Valid(encoding.bytes) THEN Err(MSG.ENCODING_UTF8)
           ELSE IF length = 0 THEN Ok(<<>>)
           ELSE IF bytes.null THEN Err(MSG.BYTES_NULL)
           ELSE IF \/ EqIgnoreAsciiCase(encoding.bytes, ENC.UTF7)
                   \/ EqIgnoreAsciiCase(encoding.bytes, ENC.UTF_7)
             THEN Err(MSG.UTF7)
           ELSE LET result_string ==
                      convert_bytes_to_string_with_fallback(byte_slice, encoding.bytes)
                IN IF ~result_string.ok THEN result_string
                   ELSE IF CStringNewOk(result_string.val) THEN result_string
                   ELSE Err(MSG.RESULT_NUL)
     IN IF result.ok
        THEN /\ LAST_ERROR' = SlotClear(LAST_ERROR, t)
             /\ \E ptr \in StrPtrs :
                  /\ IntoRaw(ptr, result.val)
                  /\ call' = [Called(t, "bytes_to_string_lenient", NULL, ptr)
                               EXCEPT !.msg = <<bytes, length, encoding>>]
        ELSE /\ LAST_ERROR' = SlotSet(LAST_ERROR, t, result.val)
             /\ call' = [Called(t, "bytes_to_string_lenient", NULL, NULL)
                          EXCEPT !.msg = <<bytes, length, encoding>>]
             /\ UNCHANGED strings
  /\ UNCHANGED <<mem, allocated, frame, hostBufs, aborted, ub>>

-----------------------------------------------------------------------------
\* The exported operations that return bytes and their length:
\* encoding/string_to_bytes.rs, base64/bytes_ops.rs, compression/compress.rs

\* base64 crate: general_purpose::STANDARD.decode (padding required, no
\* trailing bits); the Err message is cut off after the crate's literal
Base64Decode(s) ==
  LET n == Len(s)
      pad == IF n >= 1 /\ s[n] = 61 THEN (IF n >= 2 /\ s[n - 1] = 61 THEN 2 ELSE 1) ELSE 0
      idx(c) == IF \E i \in 0..63 : B64Char(i) = c
                THEN CHOOSE i \in 0..63 : B64Char(i) = c
                ELSE 0 - 1
      sextet(i) == IF i > n - pad THEN 0 ELSE idx(s[i])
      valid == /\ n % 4 = 0
               /\ \A i \in 1..(n - pad) : idx(s[i]) >= 0
               /\ pad = 2 => idx(s[n - 2]) % 16 = 0
               /\ pad = 1 => idx(s[n - 1]) % 4 = 0
      byte(j) == LET q == 4 * ((j - 1) \div 3)
                     pos == (j - 1) % 3
                 IN IF pos = 0 THEN sextet(q + 1) * 4 + (sextet(q + 2) \div 16)
                    ELSE IF pos = 1
                      THEN (sextet(q + 2) % 16) * 16 + (sextet(q + 3) \div 4)
                    ELSE (sextet(q + 3) % 4) * 64 + sextet(q + 4)
  IN IF valid THEN Ok([j \in 1..(3 * (n \div 4) - pad) |-> byte(j)])
     ELSE Err(MSG.B64_DECODE)

\* The outcomes of string_to_bytes before its out_length and return
\* statements: Err(e) for set_error(e), Ok(bytes) for the bytes to return.
string_to_bytes(input, encoding) ==
  IF input.null THEN {Err(MSG.INPUT_NULL)}
  ELSE IF encoding.null THEN {Err(MSG.ENCODING_NULL)}
  ELSE IF ~Utf8Valid(input.bytes) THEN {Err(MSG.INPUT_UTF8)}
  ELSE IF ~Utf8Valid(encoding.bytes) THEN {Err(MSG.ENCODING_UTF8)}
  ELSE IF \/ EqIgnoreAsciiCase(encoding.bytes, ENC.UTF7)
          \/ EqIgnoreAsciiCase(encoding.bytes, ENC.UTF_7)
    THEN {Err(MSG.UTF7)}
  ELSE {convert_string_to_bytes(input.bytes, encoding.bytes)}

\* the outcomes of base64_to_bytes
base64_to_bytes(input) ==
  IF input.null THEN {Err(MSG.INPUT_NULL)}
  ELSE IF ~Utf8Valid(input.bytes) THEN {Err(MSG.INPUT_UTF8)}
  ELSE IF input.bytes = <<>> THEN {Ok(<<>>)}
  ELSE {Base64Decode(input.bytes)}

\* The outcomes of compress_string.  GzEncoder (flate2) is outside the crate:
\* its result is a gzip member (10 bytes of header, the deflate stream, CRC-32
\* and length), or an io::Error from write_all or finish.  For an empty input
\* the member is fixed; otherwise the deflate stream and the CRC-32 are any
\* bytes of ByteVals.
compress_string(input, encoding) ==
  IF input.null THEN {Err(MSG.INPUT_NULL)}
  ELSE IF encoding.null THEN {Err(MSG.ENCODING_NULL)}
  ELSE IF ~Utf8Valid(input.bytes) THEN {Err(MSG.INPUT_UTF8)}
  ELSE IF ~Utf8Valid(encoding.bytes) THEN {Err(MSG.ENCODING_UTF8)}
  ELSE LET bytes == convert_string_to_bytes(input.bytes, encoding.bytes)
           header == <<31, 139, 8, 0, 0, 0, 0, 0, 0, 255>>
           isize == <<Len(bytes.val) % 256, Len(bytes.val) \div 256, 0, 0>>
       IN IF ~bytes.ok THEN {bytes}
          ELSE {Err(MSG.GZ_WRITE), Err(MSG.GZ_FINISH)}
               \cup (IF bytes.val = <<>>
                     THEN {Ok(header \o <<3, 0>> \o <<0, 0, 0, 0>> \o isize)}
                     ELSE {Ok(header \o <<c, c, 0>> \o <<c, c, c, c>> \o isize) :
                             c \in ByteVals})

\* an exported operation leaving without the write of 0 through out_length
ExportedBytesOp_no_zero(t, op, args, out_length, result) ==
  /\ ~aborted /\ ~ub
  /\ frame[t].pc = "idle"
  /\ ~result.ok
  /\ LAST_ERROR' = SlotSet(LAST_ERROR, t, result.val)
  /\ call' = [Called(t, op, out_length, NULL) EXCEPT !.msg = <<args, <<>>>>]
  /\ UNCHANGED <<mem, allocated, strings, frame, hostBufs, aborted, ub>>

\* The statements every one of the three operations ends with.
\* Err(e): set_error(e); if !out_length.is_null() { *out_length = 0 };
\*   return null.
\* Ok(bytes): if !out_length.is_null() { *out_length = bytes.len() };
\*   clear_error(); allocate_byte_array(bytes), whose first step (alloc) is
\*   taken here and whose other steps follow.
\* call.arg is out_length, call.msg the arguments and the values written
\* through out_length.
ExportedBytesOp(t, op, args, out_length, result) ==
  /\ ~aborted /\ ~ub
  /\ frame[t].pc = "idle"
  /\ IF ~result.ok
     THEN /\ LAST_ERROR' = SlotSet(LAST_ERROR, t, result.val)
          /\ call' = [Called(t, op, out_length, NULL)
                       EXCEPT !.msg = <<args, IF out_length = NULL THEN <<>> ELSE <<0>>>>]
          /\ UNCHANGED <<mem, allocated, strings, frame, hostBufs, aborted, ub>>
     ELSE /\ Cardinality(DOMAIN hostBufs) + Cardinality(InFlight) < MaxBufs
          /\ LAST_ERROR' = SlotClear(LAST_ERROR, t)
          /\ LET data == result.val
                 data_length == Len(data)
                 total_size == aba_total_size(data_length)
                 layout == aba_layout(total_size)
                 written == <<args, IF out_length = NULL THEN <<>> ELSE <<data_length>>>>
             IN \/ \E ptr \in AllocCandidates(layout) :
                     /\ allocated' = allocated \cup {Block(ptr, layout)}
                     /\ frame' = [frame EXCEPT ![t] =
                                    [pc |-> "aba_hdr0", data |-> data, ptr |-> ptr,
                                     data_length |-> data_length,
                                     total_size |-> total_size]]
                     /\ call' = [Called(t, op \o ":alloc", out_length, NULL)
                                  EXCEPT !.msg = written]
                     /\ UNCHANGED <<mem, strings, hostBufs, aborted, ub>>
                \/ \* alloc returned null: panic!("Allocation failed")
                   /\ aborted' = TRUE
                   /\ call' = [Called(t, op \o ":panic", out_length, NULL)
                                EXCEPT !.msg = written]
                   /\ UNCHANGED <<mem, allocated, strings, frame, hostBufs, ub>>

\* memory.rs: string_to_bytes_copy

\* the length written with the terminating NUL counted
string_to_bytes_copy_with_terminator(t, ptr, out_length) ==
  /\ ~aborted /\ ~ub
  /\ frame[t].pc = "idle"
  /\ ~ptr.null /\ out_length # NULL
  /\ Cardinality(DOMAIN hostBufs) + Cardinality(InFlight) < MaxBufs
  /\ LET bytes == ptr.bytes
         layout == aba_layout(aba_total_size(Len(bytes)))
     IN \E p \in AllocCandidates(layout) :
          /\ allocated' = allocated \cup {Block(p, layout)}
          /\ frame' = [frame EXCEPT ![t] =
                         [pc |-> "aba_hdr0", data |-> bytes, ptr |-> p,
                          data_length |-> Len(bytes), total_size |-> layout.size]]
          /\ call' = [Called(t, "string_to_bytes_copy:alloc", out_length, NULL)
                       EXCEPT !.msg = <<<<ptr>>, <<Len(bytes) + 1>>>>]
  /\ UNCHANGED <<mem, strings, LAST_ERROR, hostBufs, aborted, ub>>

\* ptr or out_length null: return null.  Otherwise *out_length = bytes.len()
\* for the bytes in front of the terminator, and allocate_byte_array of a
\* copy of them, whose first step (alloc) is taken here.  The error slot is
\* not touched.  call.arg, call.msg as in ExportedBytesOp.
string_to_bytes_copy(t, ptr, out_length) ==
  /\ ~aborted /\ ~ub
  /\ frame[t].pc = "idle"
  /\ IF ptr.null \/ out_length = NULL
     THEN /\ call' = [Called(t, "string_to_bytes_copy", out_length, NULL)
                       EXCEPT !.msg = <<<<ptr>>, <<>>>>]
          /\ UNCHANGED <<mem, allocated, frame, hostBufs, aborted>>
     ELSE /\ Cardinality(DOMAIN hostBufs) + Cardinality(InFlight) < MaxBufs
          /\ LET bytes == ptr.bytes
                 data_length == Len(bytes)
                 total_size == aba_total_size(data_length)
                 layout == aba_layout(total_size)
                 written == <<<<ptr>>, <<data_length>>>>
             IN \/ \E p \in AllocCandidates(layout) :
                     /\ allocated' = allocated \cup {Block(p, layout)}
                     /\ frame' = [frame EXCEPT ![t] =
                                    [pc |-> "aba_hdr0", data |-> bytes, ptr |-> p,
                                     data_length |-> data_length,
                                     total_size |-> total_size]]
                     /\ call' = [Called(t, "string_to_bytes_copy:alloc", out_length, NULL)
                                  EXCEPT !.msg = written]
                     /\ UNCHANGED <<mem, hostBufs, aborted>>
                \/ \* alloc returned null: panic!("Allocation failed")
                   /\ aborted' = TRUE
                   /\ call' = [Called(t, "string_to_bytes_copy:panic", out_length, NULL)
                                EXCEPT !.msg = written]
                   /\ UNCHANGED <<mem, allocated, frame, hostBufs>>
  /\ UNCHANGED <<strings, LAST_ERROR, ub>>

-----------------------------------------------------------------------------
\* The other exported operations that return a string: base64/bytes_ops.rs,
\* base64/string_ops.rs, compression/decompress.rs,
\* compression/base64_decompress.rs, hash/hash_ops.rs, hash/hmac_ops.rs.
\* Each operator below gives the outcomes of its function before the return
\* statements: Err(e) for set_error(e) and a null result, Ok(s) for the
\* content of the CString to return.

bytes_to_base64(bytes, length) ==
  IF bytes.null THEN {Err(MSG.BYTE_ARRAY_NULL)}
  ELSE IF length = 0 THEN {Ok(<<>>)}
  ELSE LET encoded == Base64Encode(SubSeq(bytes.bytes, 1, length))
       IN {IF CStringNewOk(encoded) THEN Ok(encoded) ELSE Err(MSG.B64_CSTRING)}

\* base64_to_string (lenient = FALSE) and base64_to_string_lenient (TRUE)
base64_to_string(input, encoding, lenient) ==
  IF input.null THEN {Err(MSG.INPUT_NULL)}
  ELSE IF encoding.null THEN {Err(MSG.ENCODING_NULL)}
  ELSE IF ~Utf8Valid(input.bytes) THEN {Err(MSG.INPUT_UTF8)}
  ELSE IF ~Utf8Valid(encoding.bytes) THEN {Err(MSG.ENCODING_UTF8)}
  ELSE LET decoded_bytes == Base64Decode(input.bytes)
           result_string ==
             IF lenient
             THEN convert_bytes_to_string_with_fallback(decoded_bytes.val, encoding.bytes)
             ELSE convert_bytes_to_string(decoded_bytes.val, encoding.bytes)
       IN IF ~decoded_bytes.ok THEN {decoded_bytes}
          ELSE IF ~result_string.ok THEN {result_string}
          ELSE IF CStringNewOk(result_string.val) THEN {result_string}
          ELSE {Err(MSG.DECODED_CSTRING)}

\* GzDecoder::new(compressed).read_to_end (flate2, outside the crate), the
\* reverse of the members compress_string is given: the fixed member of the
\* empty input decodes to no bytes; a member with a header, three bytes of
\* deflate stream, a CRC-32 and a length of 1..MaxLen decodes to some bytes of
\* that length; anything else is an io::Error, whose text is cut off after
\* the crate's literal.  What the decoder makes of an input of no bytes is
\* left open.
GzDecode(compressed) ==
  LET header == <<31, 139, 8, 0, 0, 0, 0, 0, 0, 255>>
      n == Len(compressed)
      isize == compressed[n - 3] + 256 * compressed[n - 2]
  IN IF compressed = <<>> THEN {Ok(<<>>), Err(MSG.GZ_DECODE)}
     ELSE IF compressed = header \o <<3, 0>> \o <<0, 0, 0, 0>> \o <<0, 0, 0, 0>>
       THEN {Ok(<<>>)}
     ELSE IF /\ n = 21
             /\ SubSeq(compressed, 1, 10) = header
             /\ isize \in 1..MaxLen
             /\ compressed[n - 1] = 0 /\ compressed[n] = 0
       THEN {Ok(data) : data \in [1..isize -> ByteVals \cup {97}]}
     ELSE {Err(MSG.GZ_DECODE)}

\* decompress_string (lenient = FALSE) and decompress_string_lenient (TRUE)
decompress_string(bytes, length, encoding, lenient) ==
  IF bytes.null THEN {Err(MSG.BYTE_ARRAY_NULL)}
  ELSE IF encoding.null THEN {Err(MSG.ENCODING_NULL)}
  ELSE IF ~Utf8Valid(encoding.bytes) THEN {Err(MSG.ENCODING_UTF8)}
  ELSE {LET result_string ==
              IF lenient
              THEN convert_bytes_to_string_with_fallback(decompressed.val, encoding.bytes)
              ELSE convert_bytes_to_string(decompressed.val, encoding.bytes)
        IN IF ~decompressed.ok THEN decompressed
           ELSE IF ~result_string.ok THEN result_string
           ELSE IF CStringNewOk(result_string.val) THEN result_string
           ELSE Err(MSG.GZ_CSTRING) :
          decompressed \in GzDecode(SubSeq(bytes.bytes, 1, length))}

\* base64_to_decompressed_string (lenient = FALSE) and
\* base64_to_decompressed_string_lenient (TRUE)
base64_to_decompressed_string(input, encoding, lenient) ==
  IF input.null THEN {Err(MSG.INPUT_NULL)}
  ELSE IF encoding.null THEN {Err(MSG.ENCODING_NULL)}
  ELSE IF ~Utf8Valid(input.bytes) THEN {Err(MSG.INPUT_UTF8)}
  ELSE IF ~Utf8Valid(encoding.bytes) THEN {Err(MSG.ENCODING_UTF8)}
  ELSE LET compressed_bytes == Base64Decode(input.bytes)
       IN IF ~compressed_bytes.ok THEN {compressed_bytes}
          ELSE {LET result_string ==
                      IF lenient
                      THEN convert_bytes_to_string_with_fallback(decompressed.val,
                                                                 encoding.bytes)
                      ELSE convert_bytes_to_string(decompressed.val, encoding.bytes)
                IN IF ~decompressed.ok THEN decompressed
                   ELSE IF ~result_string.ok THEN result_string
                   ELSE IF CStringNewOk(result_string.val) THEN result_string
                   ELSE Err(MSG.GZ_CSTRING) :
                  decompressed \in GzDecode(compressed_bytes.val)}

\* hash/algorithms.rs.  The digests are computed outside the crate (md5,
\* sha1, sha2): of format!("{:X}", hasher.finalize()) the model keeps the
\* length, two uppercase hexadecimal digits for each byte of the digest, and
\* lets every digit be the same one, "0" or "F".  The names are compared
\* after to_uppercase(), here of their ASCII letters.
compute_hash_bytes(bytes, algorithm) ==
  LET Is(name) == EqIgnoreAsciiCase(algorithm, name)
      digest_size == IF Is(<<77, 68, 53>>) THEN 16                \* "MD5"
                     ELSE IF Is(<<83, 72, 65, 49>>) THEN 20       \* "SHA1"
                     ELSE IF Is(<<83, 72, 65, 50, 53, 54>>) THEN 32   \* "SHA256"
                     ELSE IF Is(<<83, 72, 65, 51, 56, 52>>) THEN 48   \* "SHA384"
                     ELSE IF Is(<<83, 72, 65, 53, 49, 50>>) THEN 64   \* "SHA512"
                     ELSE 0
  IN IF digest_size = 0
     THEN {Err(MSG.UNSUPPORTED_ALGORITHM \o algorithm \o MSG.SUPPORTED_LIST)}
     ELSE {Ok([i \in 1..(2 * digest_size) |-> digit]) : digit \in {48, 70}}

\* compute_hmac_internal: the same names, digest sizes and error as
\* compute_hash_bytes; Hmac::new_from_slice takes a key of any length
compute_hmac_internal(algorithm, key, input) == compute_hash_bytes(key \o input, algorithm)

compute_hash(input, algorithm, encoding) ==
  IF input.null THEN {Err(MSG.INPUT_NULL)}
  ELSE IF algorithm.null THEN {Err(MSG.ALGORITHM_NULL)}
  ELSE IF encoding.null THEN {Err(MSG.ENCODING_NULL)}
  ELSE IF ~Utf8Valid(input.bytes) THEN {Err(MSG.INPUT_UTF8)}
  ELSE IF ~Utf8Valid(algorithm.bytes) THEN {Err(MSG.ALGORITHM_UTF8)}
  ELSE IF ~Utf8Valid(encoding.bytes) THEN {Err(MSG.ENCODING_UTF8)}
  ELSE LET bytes == convert_string_to_bytes(input.bytes, encoding.bytes)
       IN IF ~bytes.ok THEN {bytes}
          ELSE {IF ~hash_hex.ok \/ CStringNewOk(hash_hex.val) THEN hash_hex
                ELSE Err(MSG.HASH_CSTRING) :
                  hash_hex \in compute_hash_bytes(bytes.val, algorithm.bytes)}

compute_hmac_with_encoding(input, key, key_length, algorithm, encoding) ==
  IF input.null THEN {Err(MSG.INPUT_NULL)}
  ELSE IF key.null THEN {Err(MSG.KEY_NULL)}
  ELSE IF algorithm.null THEN {Err(MSG.ALGORITHM_NULL)}
  ELSE IF encoding.null THEN {Err(MSG.ENCODING_NULL)}
  ELSE IF ~Utf8Valid(input.bytes) THEN {Err(MSG.INPUT_UTF8)}
  ELSE IF ~Utf8Valid(algorithm.bytes) THEN {Err(MSG.ALGORITHM_UTF8)}
  ELSE IF ~Utf8Valid(encoding.bytes) THEN {Err(MSG.ENCODING_UTF8)}
  ELSE LET input_bytes == convert_string_to_bytes(input.bytes, encoding.bytes)
           key_slice == SubSeq(key.bytes, 1, key_length)
       IN IF ~input_bytes.ok THEN {input_bytes}
          ELSE {IF ~hmac_hex.ok \/ CStringNewOk(hmac_hex.val) THEN hmac_hex
                ELSE Err(MSG.HMAC_CSTRING) :
                  hmac_hex \in compute_hmac_internal(algorithm.bytes, key_slice,
                                                     input_bytes.val)}

compute_hmac_bytes(input_bytes, input_length, key, key_length, algorithm) ==
  IF key.null THEN {Err(MSG.KEY_NULL)}
  ELSE IF algorithm.null THEN {Err(MSG.ALGORITHM_NULL)}
  ELSE IF ~Utf8Valid(algorithm.bytes) THEN {Err(MSG.ALGORITHM_UTF8)}
  ELSE IF input_length # 0 /\ input_bytes.null THEN {Err(MSG.INPUT_BYTES_NULL)}
  ELSE LET input_slice == IF input_length = 0 THEN <<>>
                          ELSE SubSeq(input_bytes.bytes, 1, input_length)
           key_slice == SubSeq(key.bytes, 1, key_length)
       IN {IF ~hmac_hex.ok \/ CStringNewOk(hmac_hex.val) THEN hmac_hex
           ELSE Err(MSG.HMAC_CSTRING) :
             hmac_hex \in compute_hmac_internal(algorithm.bytes, key_slice, input_slice)}

\* a successful return that leaves the slot as it was on entry
ExportedStringOp_no_clear(t, op, args, clear_first, result) ==
  /\ ~aborted /\ ~ub
  /\ frame[t].pc = "idle"
  /\ LET entered == IF clear_first THEN SlotClear(LAST_ERROR, t) ELSE LAST_ERROR
     IN IF result.ok
        THEN /\ LAST_ERROR' = entered
             /\ \E ptr \in StrPtrs :
                  /\ IntoRaw(ptr, result.val)
                  /\ call' = [Called(t, op, NULL, ptr) EXCEPT !.msg = args]
        ELSE /\ LAST_ERROR' = SlotSet(entered, t, result.val)
             /\ call' = [Called(t, op, NULL, NULL) EXCEPT !.msg = args]
             /\ UNCHANGED strings
  /\ UNCHANGED <<mem, allocated, frame, hostBufs, aborted, ub>>

\* The statements every one of these operations begins and ends with.
\* clear_first: crate::error::clear_error() as the first statement (the
\*   hash operations).
\* Err(e): set_error(e); return null.
\* Ok(s): clear_error(); return c_str.into_raw().
\* call.msg keeps the arguments.
ExportedStringOp(t, op, args, clear_first, result) ==
  /\ ~aborted /\ ~ub
  /\ frame[t].pc = "idle"
  /\ LET entered == IF clear_first THEN SlotClear(LAST_ERROR, t) ELSE LAST_ERROR
     IN IF result.ok
        THEN /\ LAST_ERROR' = SlotClear(entered, t)
             /\ \E ptr \in StrPtrs :
                  /\ IntoRaw(ptr, result.val)
                  /\ call' = [Called(t, op, NULL, ptr) EXCEPT !.msg = args]
        ELSE /\ LAST_ERROR' = SlotSet(entered, t, result.val)
             /\ call' = [Called(t, op, NULL, NULL) EXCEPT !.msg = args]
             /\ UNCHANGED strings
  /\ UNCHANGED <<mem, allocated, frame, hostBufs, aborted, ub>>

-----------------------------------------------------------------------------
\* Machine integers wider than TLC's: an i64 or u32 value is a sign and
\* a magnitude, the magnitude a sequence of base-10000 digits, least
\* significant first, without leading zeros (zero is the empty sequence).

RECURSIVE MagOf(_)
MagOf(n) == IF n = 0 THEN <<>> ELSE <<n % 10000>> \o MagOf(n \div 10000)

\* the magnitude as a plain integer, for values below 2^31
RECURSIVE MagInt(_)
MagInt(a) == IF a = <<>> THEN 0 ELSE Head(a) + 10000 * MagInt(Tail(a))

RECURSIVE MagTrim(_)
MagTrim(a) ==
  IF a = <<>> THEN <<>>
  ELSE IF a[Len(a)] = 0 THEN MagTrim(SubSeq(a, 1, Len(a) - 1)) ELSE a

\* a * k + c, for 0 < k <= 100000 and 0 <= c < 10^9
RECURSIVE MagMulAdd(_, _, _)
MagMulAdd(a, k, c) ==
  IF a = <<>> THEN MagOf(c)
  ELSE LET v == Head(a) * k + c
       IN <<v % 10000>> \o MagMulAdd(Tail(a), k, v \div 10000)

\* a + b + c, c a carry
RECURSIVE MagAdd(_, _, _)
MagAdd(a, b, c) ==
  IF a = <<>> /\ b = <<>> THEN MagOf(c)
  ELSE LET x == IF a = <<>> THEN 0 ELSE Head(a)
           y == IF b = <<>> THEN 0 ELSE Head(b)
       IN <<(x + y + c) % 10000>>
          \o MagAdd(IF a = <<>> THEN a ELSE Tail(a), IF b = <<>> THEN b ELSE Tail(b),
                    (x + y + c) \div 10000)

\* a - b - c for a >= b + c, c a borrow; the digits are not trimmed
RECURSIVE MagSub(_, _, _)
MagSub(a, b, c) ==
  IF a = <<>> THEN <<>>
  ELSE LET y == IF b = <<>> THEN 0 ELSE Head(b)
           v == Head(a) - y - c
       IN <<IF v < 0 THEN v + 10000 ELSE v>>
          \o MagSub(Tail(a), IF b = <<>> THEN b ELSE Tail(b), IF v < 0 THEN 1 ELSE 0)

\* a < b, for digit sequences without leading zeros or of equal length
RECURSIVE MagLess(_, _)
MagLess(a, b) ==
  IF Len(a) # Len(b) THEN Len(a) < Len(b)
  ELSE IF a = <<>> THEN FALSE
  ELSE IF a[Len(a)] # b[Len(a)] THEN a[Len(a)] < b[Len(a)]
  ELSE MagLess(SubSeq(a, 1, Len(a) - 1), SubSeq(b, 1, Len(a) - 1))

\* a mod b, for b > 0, by subtraction
RECURSIVE MagRem(_, _)
MagRem(a, b) == IF MagLess(a, b) THEN a ELSE MagRem(MagTrim(MagSub(a, b, 0)), b)

\* quotient and remainder of a by k, for 0 < k <= 200000
RECURSIVE MagDivMod(_, _)
MagDivMod(a, k) ==
  IF a = <<>> THEN [q |-> <<>>, r |-> 0]
  ELSE LET hi == MagDivMod(Tail(a), k)
           cur == hi.r * 10000 + Head(a)
       IN [q |-> MagTrim(<<cur \div k>> \o hi.q), r |-> cur % k]

\* 2^32, 2^63 and 2^64
TWO ==
  LET p32 == MagMulAdd(MagOf(65536), 65536, 0)
  IN [p32 |-> p32,
      p63 |-> MagMulAdd(MagMulAdd(p32, 65536, 0), 32768, 0),
      p64 |-> MagMulAdd(MagMulAdd(p32, 65536, 0), 65536, 0)]

\* a value with its sign; zero is never negative
Num(neg, mag) == [neg |-> neg /\ mag # <<>>, mag |-> mag]

\* a plain integer as a machine integer
NumOf(n) == IF n < 0 THEN Num(TRUE, MagOf(0 - n)) ELSE Num(FALSE, MagOf(n))

\* the i64 that holds the low 64 bits of a non-negative value (wrapping)
RECURSIVE WrapI64(_)
WrapI64(mag) ==
  IF MagLess(mag, TWO.p63) THEN Num(FALSE, mag)
  ELSE IF MagLess(mag, TWO.p64) THEN Num(TRUE, MagTrim(MagSub(TWO.p64, mag, 0)))
  ELSE WrapI64(MagTrim(MagSub(mag, TWO.p64, 0)))

\* `x as u32` for an i64 x: the low 32 bits
AsU32(x) ==
  LET hi == MagDivMod(x.mag, 65536)
      low32 == MagMulAdd(MagOf(MagDivMod(hi.q, 65536).r), 65536, hi.r)
  IN IF x.neg /\ low32 # <<>> THEN MagTrim(MagSub(TWO.p32, low32, 0)) ELSE low32

\* x / k and x % k on i64: the quotient truncates toward zero and the
\* remainder has the sign of x
TruncDiv(x, k) == Num(x.neg, MagDivMod(x.mag, k).q)
TruncRem(x, k) == Num(x.neg, MagOf(MagDivMod(x.mag, k).r))

-----------------------------------------------------------------------------
\* time.rs

is_leap_year(year) == (year % 4 = 0 /\ year % 100 # 0) \/ year % 400 = 0

days_in_month(year) ==
  <<31, IF is_leap_year(year) THEN 29 ELSE 28, 31, 30, 31, 30, 31, 31, 30, 31, 30, 31>>

\* for y in 1970..year { days += if is_leap_year(y) { 366 } else { 365 } }
\* (the additions of the years from..to-1, grouped in halves)
RECURSIVE years_loop(_, _)
years_loop(from, to) ==
  IF from >= to THEN 0
  ELSE IF to - from = 1 THEN (IF is_leap_year(from) THEN 366 ELSE 365)
  ELSE years_loop(from, (from + to) \div 2) + years_loop((from + to) \div 2, to)

\* The days the year loop adds up.  For years further than LoopYears from
\* 1970 the loop is not run step by step: its sum is 365 for every year plus
\* one for every leap year in 1970..year-1 (477 leap years precede 1970).
LoopYears == 1000
days_of_complete_years(year) ==
  IF year - 1970 <= LoopYears THEN MagOf(years_loop(1970, year))
  ELSE MagMulAdd(MagOf(year - 1970), 365,
                 ((year - 1) \div 4 - (year - 1) \div 100 + (year - 1) \div 400) - 477)

\* for m in 1..month { days += days_in_month[(m - 1) as usize] }, month <= 13
RECURSIVE months_loop(_, _, _, _)
months_loop(m, month, year, days) ==
  IF m >= month THEN days
  ELSE months_loop(m + 1, month, year, days + days_in_month(year)[m])

Returns(v) == [panic |-> FALSE, value |-> v]
Panics == [panic |-> TRUE, value |-> <<>>]

\* What a call of to_unix_time does: the value it returns, or a panic.
\* overflow_checks is the build's setting: with it an arithmetic overflow
\* panics, without it the result wraps.
to_unix_time_outcome(year, month, day, hour, minute, second, milliseconds, overflow_checks) ==
  IF month >= 14 THEN Panics                \* days_in_month[12]: index out of bounds
  ELSE IF day = 0 /\ overflow_checks THEN Panics           \* day - 1 on a u32
  ELSE LET day_minus_1 == IF day = 0 THEN MagTrim(MagSub(TWO.p32, <<1>>, 0))
                          ELSE MagOf(day - 1)
           days == MagAdd(MagAdd(days_of_complete_years(year),
                                 MagOf(months_loop(1, month, year, 0)), 0),
                          day_minus_1, 0)
           total_seconds == MagMulAdd(days, 86400, hour * 3600 + minute * 60 + second)
           millis == MagMulAdd(total_seconds, 1000, 0)
       IN IF ~milliseconds THEN Returns(Num(FALSE, total_seconds))
          ELSE IF MagLess(millis, TWO.p63) THEN Returns(Num(FALSE, millis))
          ELSE IF overflow_checks THEN Panics              \* total_seconds * 1000
          ELSE Returns(WrapI64(millis))

\* the call: a panic in an extern "C" function aborts the process
to_unix_time(t, year, month, day, hour, minute, second, milliseconds) ==
  /\ ~aborted /\ ~ub
  /\ frame[t].pc = "idle"
  /\ \E overflow_checks \in BOOLEAN :
       LET o == to_unix_time_outcome(year, month, day, hour, minute, second,
                                     milliseconds, overflow_checks)
           args == <<year, month, day, hour, minute, second,
                     IF milliseconds THEN 1 ELSE 0>>
       IN IF o.panic
          THEN /\ aborted' = TRUE
               /\ call' = [Called(t, "to_unix_time:panic", NULL, NULL) EXCEPT !.msg = args]
          ELSE /\ UNCHANGED aborted
               /\ call' = [Called(t, "to_unix_time", NULL, NULL)
                            EXCEPT !.msg = args, !.ret = o.value]
  /\ UNCHANGED <<mem, allocated, strings, LAST_ERROR, frame, hostBufs, ub>>

\* at most `fuel` iterations of the year loop of from_unix_time
RECURSIVE from_year_steps(_, _, _)
from_year_steps(days, year, fuel) ==
  LET days_in_year == IF is_leap_year(year) THEN 366 ELSE 365
  IN IF days < days_in_year \/ fuel = 0 THEN [year |-> year, days |-> days]
     ELSE from_year_steps(days - days_in_year, year + 1, fuel - 1)

\* the year loop of from_unix_time, on a non-negative day count, run in
\* stretches of 50 iterations
RECURSIVE from_year_loop(_, _)
from_year_loop(days, year) ==
  LET r == from_year_steps(days, year, 50)
  IN IF r.days < (IF is_leap_year(r.year) THEN 366 ELSE 365) THEN r
     ELSE from_year_loop(r.days, r.year)

\* the month loop of from_unix_time, on a non-negative day count
RECURSIVE from_month_loop(_, _, _)
from_month_loop(days, month, year) ==
  IF month > 12 \/ days < days_in_month(year)[month]
  THEN [month |-> month, days |-> days]
  ELSE from_month_loop(days - days_in_month(year)[month], month + 1, year)

\* What from_unix_time does: the tuple (year, month, day, hour, minute,
\* second) it returns, or a panic (days as u32 + 1 overflowing).
from_unix_time_outcome(timestamp, milliseconds, overflow_checks) ==
  LET total_seconds == IF milliseconds THEN TruncDiv(timestamp, 1000) ELSE timestamp
      second == AsU32(TruncRem(total_seconds, 60))
      minutes == TruncDiv(total_seconds, 60)
      minute == AsU32(TruncRem(minutes, 60))
      hours == TruncDiv(minutes, 60)
      hour == AsU32(TruncRem(hours, 24))
      days == TruncDiv(hours, 24)
  IN IF days.neg
     THEN \* both loops break at once: year 1970, month 1, days unchanged
          IF AsU32(days) = MagTrim(MagSub(TWO.p32, <<1>>, 0))
          THEN IF overflow_checks THEN Panics
               ELSE Returns(<<NumOf(1970), NumOf(1), NumOf(0), Num(FALSE, hour),
                              Num(FALSE, minute), Num(FALSE, second)>>)
          ELSE Returns(<<NumOf(1970), NumOf(1), Num(FALSE, MagAdd(AsU32(days), <<1>>, 0)),
                         Num(FALSE, hour), Num(FALSE, minute), Num(FALSE, second)>>)
     ELSE \* 400 iterations of the year loop take 146097 days off, whatever
          \* year they start in: whole runs of 400 are taken at once.
          \* to_max: the days of the years 1970..=i32::MAX, after which
          \* `year += 1` overflows; it panics, or wraps to i32::MIN, and then
          \* every 2^32 iterations take all_years days off and come back to
          \* i32::MIN (i32::MIN + 400 * 5368710 = 352).
          LET to_max == MagAdd(days_of_complete_years(2147483647), <<365>>, 0)
              all_years == MagMulAdd(MagOf(10737418), 146097, 35064)
              wraps == ~MagLess(days.mag, to_max)
              left == IF wraps THEN MagRem(MagTrim(MagSub(days.mag, to_max, 0)), all_years)
                      ELSE days.mag
              cycles == MagDivMod(left, 146097)
              q == MagInt(cycles.q)
              start == IF ~wraps THEN 1970 + 400 * q
                       ELSE IF q >= 5368710 THEN 352 + 400 * (q - 5368710)
                       ELSE (0 - 2147483647) - 1 + 400 * q
              y == from_year_loop(cycles.r, start)
              m == from_month_loop(y.days, 1, y.year)
          IN IF wraps /\ overflow_checks THEN Panics
             ELSE Returns(<<IF y.year < 0 - 2147483647
                            THEN Num(TRUE, MagAdd(MagOf(2147483647), <<1>>, 0))
                            ELSE NumOf(y.year),
                            NumOf(m.month), NumOf(m.days + 1),
                            Num(FALSE, hour), Num(FALSE, minute), Num(FALSE, second)>>)

\* `nulls` are the positions (1 out_year .. 6 out_second) of the out
\* pointers that are null; call.ret is the bool returned and call.msg[4] the
\* values stored through the six pointers, in their order
from_unix_time_ffi(t, timestamp, milliseconds, nulls) ==
  /\ ~aborted /\ ~ub
  /\ frame[t].pc = "idle"
  /\ \E overflow_checks \in BOOLEAN :
       LET o == from_unix_time_outcome(timestamp, milliseconds, overflow_checks)
           args == <<timestamp, milliseconds, nulls>>
       IN IF nulls # {}
          THEN /\ UNCHANGED aborted
               /\ call' = [Called(t, "from_unix_time_ffi", NULL, FALSE)
                            EXCEPT !.msg = Append(args, <<>>)]
          ELSE IF o.panic
          THEN /\ aborted' = TRUE
               /\ call' = [Called(t, "from_unix_time_ffi:panic", NULL, NULL)
                            EXCEPT !.msg = Append(args, <<>>)]
          ELSE /\ UNCHANGED aborted
               /\ call' = [Called(t, "from_unix_time_ffi", NULL, TRUE)
                            EXCEPT !.msg = Append(args, o.value)]
  /\ UNCHANGED <<mem, allocated, strings, LAST_ERROR, frame, hostBufs, ub>>

-----------------------------------------------------------------------------
\* The system

EmptyMap == [p \in {} |-> NULL]

Init ==
  /\ mem = [a \in Addrs |-> Uninit]
  /\ allocated = {}
  /\ strings = EmptyMap
  /\ LAST_ERROR = [t \in Threads |-> None]
  /\ frame = [t \in Threads |-> Idle]
  /\ hostBufs = EmptyMap
  /\ call = NoCall
  /\ aborted = FALSE
  /\ ub = FALSE

\* C strings the host passes: "a", U+00E9 in UTF-8, "a b", a byte string that
\* is not UTF-8, and "utf8" and "X" as encoding names
STR ==
  [A |-> CStr(<<97>>),
   E_ACUTE |-> CStr(<<195, 169>>),
   A_SPACE_B |-> CStr(<<97, 32, 98>>),
   NOT_UTF8 |-> CStr(<<255>>),
   UTF8_LOWER |-> CStr(<<117, 116, 102, 56>>),
   X |-> CStr(<<88>>)]

\* (input, encoding) pairs the host passes to string_to_base64, one for each
\* way out of the function
Base64Args ==
  {<<NullStr, STR.UTF8_LOWER>>, <<STR.A, NullStr>>, <<STR.NOT_UTF8, STR.UTF8_LOWER>>,
   <<STR.A, STR.NOT_UTF8>>, <<STR.A, CStr(ENC.UTF7)>>, <<STR.A, STR.X>>,
   <<STR.E_ACUTE, CStr(ENC.ASCII)>>, <<STR.A, STR.UTF8_LOWER>>}

CallAllocateByteArray == \E t \in Threads, data \in ByteSeqs : allocate_byte_array(t, data)
StepWriteLength == \E t \in Threads : aba_write_length(t)
StepWriteTotal == \E t \in Threads : aba_write_total(t)
StepCopyReturn == \E t \in Threads : aba_copy_return(t)
CallFreeBytes == \E t \in Threads, ptr \in {NULL} \cup DOMAIN hostBufs : free_bytes(t, ptr)
StepDealloc == \E t \in Threads : fb_dealloc(t)
CallFreeString == \E t \in Threads, ptr \in {NULL} \cup DOMAIN strings : free_string(t, ptr)
CallSetError == \E t \in Threads, m \in Messages : set_error(t, m)
CallSetAError == \E t \in Threads : set_error(t, MSG.A_ERROR)
CallClearError == \E t \in Threads : clear_error(t)
CallGetLastError == \E t \in Threads : get_last_error(t)
CallStringToBase64 == \E t \in Threads, a \in Base64Args : string_to_base64(t, a[1], a[2])
CallUrlEncode ==
  \E t \in Threads, input \in {NullStr, STR.A_SPACE_B, STR.NOT_UTF8} : url_encode(t, input)
\* inputs made of letters, digits and unreserved characters: "aZ9", "-_." and
\* "a~", and null
CallUrlEncodeUnreserved ==
  \E t \in Threads,
     input \in {CStr(<<97, 90, 57>>), CStr(<<45, 95, 46>>), CStr(<<97, 126>>), NullStr} :
    url_encode(t, input)
\* null, "%41", "%4", "%FF", "%00" and a byte string that is not UTF-8
CallUrlDecode ==
  \E t \in Threads,
     input \in {NullStr, CStr(<<37, 52, 49>>), CStr(<<37, 52>>), CStr(<<37, 70, 70>>),
               CStr(<<37, 48, 48>>), STR.NOT_UTF8} :
    url_decode(t, input)

\* The buffer ownership protocol: threads allocating and freeing buffers
\* step by step, next to the error channel and the string deallocator.
Next ==
  \/ CallAllocateByteArray
  \/ StepWriteLength
  \/ StepWriteTotal
  \/ StepCopyReturn
  \/ CallFreeBytes
  \/ StepDealloc
  \/ CallFreeString
  \/ CallSetAError
  \/ CallClearError
  \/ CallGetLastError

Spec == Init /\ [][Next]_vars

\* The error channel: the exported string operations, the slot's own
\* operations and the deallocators' null cases.
ErrNext ==
  \/ CallSetError
  \/ CallClearError
  \/ CallGetLastError
  \/ CallFreeString
  \/ CallStringToBase64
  \/ CallUrlEncode

ErrSpec == Init /\ [][ErrNext]_vars

\* The URL operations with the error channel and the string deallocator.
UrlNext ==
  \/ CallUrlEncodeUnreserved
  \/ CallUrlDecode
  \/ CallSetAError
  \/ CallClearError
  \/ CallGetLastError
  \/ CallFreeString

UrlSpec == Init /\ [][UrlNext]_vars

\* (bytes, length, encoding) the host passes to bytes_to_string_lenient:
\* "A", a NUL byte and a byte that is not UTF-8 under UTF8, ASCII and LATIN1;
\* a lone surrogate, three bytes and "A" as UTF-16; 0x110000, two bytes and
\* "A" as UTF-32; UTF7, an unknown name, a name that is not UTF-8 and a null
\* name; a null bytes pointer; length 0
CallBytesToStringLenient ==
  LET B(s) == [null |-> FALSE, bytes |-> s]
      args ==
        {<<B(<<65>>), 1, CStr(ENC.UTF8)>>, <<B(<<0>>), 1, CStr(ENC.UTF8)>>,
         <<B(<<255>>), 1, CStr(ENC.UTF8)>>, <<B(<<255>>), 1, CStr(ENC.ASCII)>>,
         <<B(<<0>>), 1, CStr(ENC.LATIN1)>>, <<B(<<0, 216>>), 2, CStr(ENC.UNICODE)>>,
         <<B(<<72, 65, 101>>), 3, CStr(ENC.UNICODE)>>, <<B(<<65, 0>>), 2, CStr(ENC.UTF16BE)>>,
         <<B(<<0, 0, 17, 0>>), 4, CStr(ENC.UTF32)>>, <<B(<<65, 0>>), 2, CStr(ENC.UTF32)>>,
         <<B(<<65, 0, 0, 0>>), 4, CStr(ENC.UTF32)>>, <<B(<<65>>), 1, CStr(ENC.UTF7)>>,
         <<B(<<65>>), 1, STR.X>>, <<B(<<65>>), 1, STR.NOT_UTF8>>, <<B(<<65>>), 1, NullStr>>,
         <<NullBytes, 1, CStr(ENC.UTF8)>>, <<NullBytes, 0, CStr(ENC.UTF8)>>,
         <<B(<<65>>), 0, CStr(ENC.UTF7)>>}
  IN \E t \in Threads, a \in args : bytes_to_string_lenient(t, a[1], a[2], a[3])

\* (bytes, length, encoding) the host passes to bytes_to_string: "A", a NUL
\* byte and a null pointer with lengths 1 and 0, under UTF8, utf-7, an
\* unknown name, a name that is not UTF-8 and a null name
CallBytesToString ==
  LET B(s) == [null |-> FALSE, bytes |-> s]
      utf_7 == CStr(<<117, 116, 102, 45, 55>>)
      args ==
        {<<B(<<65>>), 1, CStr(ENC.UTF8)>>, <<B(<<0>>), 1, CStr(ENC.UTF8)>>,
         <<NullBytes, 1, CStr(ENC.UTF8)>>, <<NullBytes, 0, CStr(ENC.UTF8)>>,
         <<B(<<65>>), 0, CStr(ENC.UTF8)>>, <<B(<<65>>), 1, utf_7>>, <<B(<<65>>), 0, utf_7>>,
         <<NullBytes, 1, utf_7>>, <<B(<<65>>), 1, STR.X>>, <<B(<<65>>), 0, STR.X>>,
         <<B(<<65>>), 1, STR.NOT_UTF8>>, <<B(<<65>>), 0, STR.NOT_UTF8>>,
         <<B(<<65>>), 1, NullStr>>, <<B(<<65>>), 0, NullStr>>}
  IN \E t \in Threads, a \in args : bytes_to_string(t, a[1], a[2], a[3])

\* bytes_to_string and bytes_to_string_lenient with the string deallocator
LenientNext ==
  \/ CallBytesToStringLenient
  \/ CallBytesToString
  \/ CallFreeString

LenientSpec == Init /\ [][LenientNext]_vars

\* a non-null `*mut usize`: the address of the caller's length variable
OUT_LENGTH == 1

\* string_to_bytes on the argument pairs of string_to_base64 (the two
\* functions have the same exits) and on the empty string
CallStringToBytes ==
  \E t \in Threads, a \in Base64Args \cup {<<CStr(<<>>), STR.UTF8_LOWER>>},
     out_length \in {NULL, OUT_LENGTH} :
    \E result \in string_to_bytes(a[1], a[2]) :
      ExportedBytesOp(t, "string_to_bytes", a, out_length, result)

\* base64_to_bytes on null, a byte string that is not UTF-8, "", "AP8=",
\* "AR==" (trailing bits), "A" (length) and "A*==" (alphabet)
CallBase64ToBytes ==
  \E t \in Threads,
     input \in {NullStr, STR.NOT_UTF8, CStr(<<>>), CStr(<<65, 80, 56, 61>>),
                CStr(<<65, 82, 61, 61>>), CStr(<<65>>), CStr(<<65, 42, 61, 61>>)},
     out_length \in {NULL, OUT_LENGTH} :
    \E result \in base64_to_bytes(input) :
      ExportedBytesOp(t, "base64_to_bytes", <<input>>, out_length, result)

\* compress_string on a null input, a null encoding, an unknown encoding
\* name, "" and "a"
CallCompressString ==
  \E t \in Threads,
     a \in {<<NullStr, STR.UTF8_LOWER>>, <<STR.A, NullStr>>, <<STR.A, STR.X>>,
            <<CStr(<<>>), STR.UTF8_LOWER>>, <<STR.A, STR.UTF8_LOWER>>},
     out_length \in {NULL, OUT_LENGTH} :
    \E result \in compress_string(a[1], a[2]) :
      ExportedBytesOp(t, "compress_string", a, out_length, result)

\* The operations that return bytes, with the steps of allocate_byte_array
\* and free_bytes they rely on.
BytesNext ==
  \/ CallStringToBytes
  \/ CallBase64ToBytes
  \/ CallCompressString
  \/ StepWriteLength
  \/ StepWriteTotal
  \/ StepCopyReturn
  \/ CallFreeBytes
  \/ StepDealloc

BytesSpec == Init /\ [][BytesNext]_vars

\* The operations of the base64, encoding, compression and hash modules on
\* the error channel of one thread, "A", which makes every call and frees
\* what it is given.  The arguments take each operation
\* through its exits: null pointers, pointers to bytes that are not UTF-8,
\* text that does not decode, bytes that are not text in the encoding, a NUL
\* byte in the result, unknown names, and inputs that succeed.
ChannelNext ==
  \/ \E a \in {<<NullStr, STR.UTF8_LOWER>>, <<STR.A, NullStr>>,
               <<STR.NOT_UTF8, STR.UTF8_LOWER>>, <<STR.A, STR.NOT_UTF8>>,
               <<STR.A, CStr(ENC.UTF7)>>, <<STR.A, STR.X>>, <<STR.A, STR.UTF8_LOWER>>} :
       string_to_base64("A", a[1], a[2])
  \/ \E a \in {<<[null |-> FALSE, bytes |-> <<97>>], 1, CStr(ENC.UTF8)>>,
               <<[null |-> FALSE, bytes |-> <<0>>], 1, CStr(ENC.UTF8)>>,
               <<[null |-> FALSE, bytes |-> <<255>>], 1, CStr(ENC.UTF8)>>,
               <<NullBytes, 1, CStr(ENC.UTF8)>>, <<NullBytes, 0, CStr(ENC.UTF8)>>,
               <<[null |-> FALSE, bytes |-> <<97>>], 1, CStr(ENC.UTF7)>>,
               <<[null |-> FALSE, bytes |-> <<97>>], 1, STR.X>>,
               <<[null |-> FALSE, bytes |-> <<97>>], 1, STR.NOT_UTF8>>,
               <<[null |-> FALSE, bytes |-> <<97>>], 1, NullStr>>} :
       \/ bytes_to_string("A", a[1], a[2], a[3])
       \/ bytes_to_string_lenient("A", a[1], a[2], a[3])
  \/ \E a \in {<<NullStr, STR.UTF8_LOWER>>, <<STR.A, NullStr>>,
               <<STR.NOT_UTF8, STR.UTF8_LOWER>>, <<STR.A, STR.NOT_UTF8>>,
               <<STR.A, CStr(ENC.UTF7)>>, <<STR.A, STR.X>>,
               <<CStr(<<>>), STR.UTF8_LOWER>>} :
       \E result \in string_to_bytes(a[1], a[2]) :
         ExportedBytesOp("A", "string_to_bytes", a, OUT_LENGTH, result)
  \/ \* null, a byte string that is not UTF-8, "", "AA==" and "A"
     \E input \in {NullStr, STR.NOT_UTF8, CStr(<<>>), CStr(<<65, 65, 61, 61>>),
                   CStr(<<65>>)} :
       \E result \in base64_to_bytes(input) :
         ExportedBytesOp("A", "base64_to_bytes", <<input>>, OUT_LENGTH, result)
  \/ \E a \in {<<NullStr, STR.UTF8_LOWER>>, <<STR.A, NullStr>>,
               <<STR.NOT_UTF8, STR.UTF8_LOWER>>, <<STR.A, STR.NOT_UTF8>>,
               <<STR.A, STR.X>>, <<CStr(<<>>), STR.UTF8_LOWER>>} :
       \E result \in compress_string(a[1], a[2]) :
         ExportedBytesOp("A", "compress_string", a, OUT_LENGTH, result)
  \/ StepWriteLength
  \/ StepWriteTotal
  \/ StepCopyReturn
  \/ CallFreeBytes /\ call'.t = "A"
  \/ StepDealloc
  \/ CallFreeString /\ call'.t = "A"
  \/ \E a \in {<<NullBytes, 0>>, <<[null |-> FALSE, bytes |-> <<97>>], 0>>,
               <<[null |-> FALSE, bytes |-> <<97>>], 1>>} :
       \E result \in bytes_to_base64(a[1], a[2]) :
         ExportedStringOp("A", "bytes_to_base64", a, FALSE, result)
  \/ \* "YQ==" is "a", "YQ=" too short, "/w==" the byte 255, "AA==" the byte 0
     \E lenient \in BOOLEAN,
        a \in {<<NullStr, STR.UTF8_LOWER>>, <<CStr(<<89, 81, 61, 61>>), NullStr>>,
               <<STR.NOT_UTF8, STR.UTF8_LOWER>>, <<CStr(<<89, 81, 61, 61>>), STR.NOT_UTF8>>,
               <<CStr(<<89, 81, 61>>), STR.UTF8_LOWER>>,
               <<CStr(<<47, 119, 61, 61>>), STR.UTF8_LOWER>>,
               <<CStr(<<65, 65, 61, 61>>), STR.UTF8_LOWER>>,
               <<CStr(<<89, 81, 61, 61>>), STR.X>>,
               <<CStr(<<89, 81, 61, 61>>), STR.UTF8_LOWER>>} :
       \E result \in base64_to_string(a[1], a[2], lenient) :
         ExportedStringOp("A", IF lenient THEN "base64_to_string_lenient"
                               ELSE "base64_to_string", a, FALSE, result)
  \/ \* the gzip member of the empty input, a member of one byte, one byte
     \* that is no member, and no bytes
     \E lenient \in BOOLEAN,
        a \in LET B(s) == [null |-> FALSE, bytes |-> s]
                  header == <<31, 139, 8, 0, 0, 0, 0, 0, 0, 255>>
                  empty == header \o <<3, 0>> \o <<0, 0, 0, 0>> \o <<0, 0, 0, 0>>
                  one == header \o <<0, 0, 0>> \o <<0, 0, 0, 0>> \o <<1, 0, 0, 0>>
              IN {<<NullBytes, 0, STR.UTF8_LOWER>>, <<B(empty), 20, NullStr>>,
                  <<B(empty), 20, STR.NOT_UTF8>>, <<B(<<1>>), 1, STR.UTF8_LOWER>>,
                  <<B(<<1>>), 0, STR.UTF8_LOWER>>, <<B(empty), 20, STR.X>>,
                  <<B(empty), 20, STR.UTF8_LOWER>>, <<B(one), 21, STR.UTF8_LOWER>>} :
       \E result \in decompress_string(a[1], a[2], a[3], lenient) :
         ExportedStringOp("A", IF lenient THEN "decompress_string_lenient"
                               ELSE "decompress_string", a, FALSE, result)
  \/ \* the same members as Base64 text
     \E lenient \in BOOLEAN,
        a \in LET header == <<31, 139, 8, 0, 0, 0, 0, 0, 0, 255>>
                  empty == header \o <<3, 0>> \o <<0, 0, 0, 0>> \o <<0, 0, 0, 0>>
                  one == header \o <<0, 0, 0>> \o <<0, 0, 0, 0>> \o <<1, 0, 0, 0>>
              IN {<<NullStr, STR.UTF8_LOWER>>, <<CStr(Base64Encode(empty)), NullStr>>,
                  <<STR.NOT_UTF8, STR.UTF8_LOWER>>,
                  <<CStr(Base64Encode(empty)), STR.NOT_UTF8>>,
                  <<CStr(<<89, 81, 61>>), STR.UTF8_LOWER>>,
                  <<CStr(<<89, 81, 61, 61>>), STR.UTF8_LOWER>>,
                  <<CStr(Base64Encode(empty)), STR.X>>,
                  <<CStr(Base64Encode(empty)), STR.UTF8_LOWER>>,
                  <<CStr(Base64Encode(one)), STR.UTF8_LOWER>>} :
       \E result \in base64_to_decompressed_string(a[1], a[2], lenient) :
         ExportedStringOp("A", IF lenient THEN "base64_to_decompressed_string_lenient"
                               ELSE "base64_to_decompressed_string", a, FALSE, result)
  \/ \E a \in LET MD5 == CStr(<<77, 68, 53>>)
              IN {<<NullStr, MD5, STR.UTF8_LOWER>>, <<STR.A, NullStr, STR.UTF8_LOWER>>,
                  <<STR.A, MD5, NullStr>>, <<STR.NOT_UTF8, MD5, STR.UTF8_LOWER>>,
                  <<STR.A, STR.NOT_UTF8, STR.UTF8_LOWER>>, <<STR.A, MD5, STR.NOT_UTF8>>,
                  <<STR.E_ACUTE, MD5, CStr(ENC.ASCII)>>, <<STR.A, STR.X, STR.UTF8_LOWER>>,
                  <<STR.A, MD5, STR.UTF8_LOWER>>} :
       \E result \in compute_hash(a[1], a[2], a[3]) :
         ExportedStringOp("A", "compute_hash", a, TRUE, result)
  \/ \* the key "k" and the algorithm name in lower case
     \E a \in LET md5 == CStr(<<109, 100, 53>>)
                  K == [null |-> FALSE, bytes |-> <<107>>]
              IN {<<NullStr, K, 1, md5, STR.UTF8_LOWER>>,
                  <<STR.A, NullBytes, 0, md5, STR.UTF8_LOWER>>,
                  <<STR.A, K, 1, NullStr, STR.UTF8_LOWER>>, <<STR.A, K, 1, md5, NullStr>>,
                  <<STR.NOT_UTF8, K, 1, md5, STR.UTF8_LOWER>>,
                  <<STR.A, K, 1, STR.NOT_UTF8, STR.UTF8_LOWER>>,
                  <<STR.A, K, 1, md5, STR.NOT_UTF8>>, <<STR.A, K, 1, md5, STR.X>>,
                  <<STR.A, K, 1, STR.X, STR.UTF8_LOWER>>,
                  <<STR.A, K, 0, md5, STR.UTF8_LOWER>>, <<STR.A, K, 1, md5, STR.UTF8_LOWER>>} :
       \E result \in compute_hmac_with_encoding(a[1], a[2], a[3], a[4], a[5]) :
         ExportedStringOp("A", "compute_hmac_with_encoding", a, TRUE, result)
  \/ \E a \in LET MD5 == CStr(<<77, 68, 53>>)
                  K == [null |-> FALSE, bytes |-> <<107>>]
              IN {<<K, 1, NullBytes, 0, MD5>>, <<K, 1, K, 1, NullStr>>,
                  <<K, 1, K, 1, STR.NOT_UTF8>>, <<NullBytes, 1, K, 1, MD5>>,
                  <<NullBytes, 0, K, 1, MD5>>, <<K, 1, K, 1, STR.X>>, <<K, 1, K, 1, MD5>>} :
       \E result \in compute_hmac_bytes(a[1], a[2], a[3], a[4], a[5]) :
         ExportedStringOp("A", "compute_hmac_bytes", a, TRUE, result)

ChannelSpec == Init /\ [][ChannelNext]_vars

\* The pointers handed to the host: thread "A" calls the operations that
\* return bytes, the operations that return a string, and get_last_error,
\* each with arguments that fail and arguments that succeed, and frees what
\* it was given.
PointerNext ==
  \/ \E a \in {<<NullStr, STR.UTF8_LOWER>>, <<STR.A, STR.UTF8_LOWER>>} :
       \E result \in string_to_bytes(a[1], a[2]) :
         ExportedBytesOp("A", "string_to_bytes", a, OUT_LENGTH, result)
  \/ \* "AA==" is the byte 0
     \E input \in {NullStr, CStr(<<>>), CStr(<<65, 65, 61, 61>>)} :
       \E result \in base64_to_bytes(input) :
         ExportedBytesOp("A", "base64_to_bytes", <<input>>, OUT_LENGTH, result)
  \/ \E a \in {<<NullStr, STR.UTF8_LOWER>>, <<CStr(<<>>), STR.UTF8_LOWER>>} :
       \E result \in compress_string(a[1], a[2]) :
         ExportedBytesOp("A", "compress_string", a, OUT_LENGTH, result)
  \/ \E a \in {<<NullStr, OUT_LENGTH>>, <<STR.A, NULL>>, <<CStr(<<>>), OUT_LENGTH>>,
               <<STR.A, OUT_LENGTH>>} :
       string_to_bytes_copy("A", a[1], a[2])
  \/ StepWriteLength
  \/ StepWriteTotal
  \/ StepCopyReturn
  \/ CallFreeBytes /\ call'.t = "A"
  \/ StepDealloc
  \/ CallFreeString /\ call'.t = "A"
  \/ CallGetLastError /\ call'.t = "A"
  \/ \E a \in {<<NullStr, STR.UTF8_LOWER>>, <<CStr(<<>>), STR.UTF8_LOWER>>} :
       string_to_base64("A", a[1], a[2])
  \/ \E input \in {NullStr, STR.A} : url_encode("A", input) \/ url_decode("A", input)
  \/ \E a \in {<<[null |-> FALSE, bytes |-> <<97>>], 1, CStr(ENC.UTF8)>>,
               <<[null |-> FALSE, bytes |-> <<97>>], 1, NullStr>>} :
       \/ bytes_to_string("A", a[1], a[2], a[3])
       \/ bytes_to_string_lenient("A", a[1], a[2], a[3])
  \/ \E result \in bytes_to_base64([null |-> FALSE, bytes |-> <<97>>], 0) :
       ExportedStringOp("A", "bytes_to_base64", <<>>, FALSE, result)
  \/ \* "YQ==" is "a"
     \E lenient \in BOOLEAN,
        a \in {<<NullStr, STR.UTF8_LOWER>>, <<CStr(<<89, 81, 61, 61>>), STR.UTF8_LOWER>>} :
       \E result \in base64_to_string(a[1], a[2], lenient) :
         ExportedStringOp("A", IF lenient THEN "base64_to_string_lenient"
                               ELSE "base64_to_string", <<>>, FALSE, result)
  \/ \* the gzip member of the empty input
     \E lenient \in BOOLEAN :
       \E result \in
            decompress_string([null |-> FALSE,
                               bytes |-> <<31, 139, 8, 0, 0, 0, 0, 0, 0, 255>> \o <<3, 0>>
                                           \o <<0, 0, 0, 0>> \o <<0, 0, 0, 0>>],
                              20, STR.UTF8_LOWER, lenient) :
         ExportedStringOp("A", IF lenient THEN "decompress_string_lenient"
                               ELSE "decompress_string", <<>>, FALSE, result)
  \/ \* the same member as Base64 text
     \E lenient \in BOOLEAN,
        a \in {<<NullStr, STR.UTF8_LOWER>>,
               <<CStr(Base64Encode(<<31, 139, 8, 0, 0, 0, 0, 0, 0, 255>> \o <<3, 0>>
                                     \o <<0, 0, 0, 0>> \o <<0, 0, 0, 0>>)),
                 STR.UTF8_LOWER>>} :
       \E result \in base64_to_decompressed_string(a[1], a[2], lenient) :
         ExportedStringOp("A", IF lenient THEN "base64_to_decompressed_string_lenient"
                               ELSE "base64_to_decompressed_string", <<>>, FALSE, result)
  \/ \E input \in {NullStr, STR.A} :
       \E result \in compute_hash(input, CStr(<<77, 68, 53>>), STR.UTF8_LOWER) :
         ExportedStringOp("A", "compute_hash", <<>>, TRUE, result)
  \/ \E input \in {NullStr, STR.A} :
       \E result \in compute_hmac_with_encoding(input, [null |-> FALSE, bytes |-> <<107>>],
                                                1, CStr(<<77, 68, 53>>), STR.UTF8_LOWER) :
         ExportedStringOp("A", "compute_hmac_with_encoding", <<>>, TRUE, result)
  \/ \E result \in compute_hmac_bytes(NullBytes, 0, [null |-> FALSE, bytes |-> <<107>>], 1,
                                      CStr(<<77, 68, 53>>)) :
       ExportedStringOp("A", "compute_hmac_bytes", <<>>, TRUE, result)

PointerSpec == Init /\ [][PointerNext]_vars

\* memory.rs, test_concurrent_allocations: every worker thread fills its
\* buffers with its own byte (vec![i as u8; size]) and runs allocate, read,
\* free on one buffer at a time.  Worker "A" writes 0 and worker "B" 255, so
\* the bytes a buffer was allocated from tell which worker owns it.
WorkerData(t) ==
  IF t = "A" THEN {s \in ByteSeqs : Range(s) \subseteq {0}}
  ELSE {s \in ByteSeqs : s # <<>> /\ Range(s) \subseteq {255}}

Owner(p) == IF 255 \in Range(hostBufs[p]) THEN "B" ELSE "A"

\* let ptr = allocate_byte_array(data.clone())
WorkerAllocate ==
  \E t \in Threads :
    \E data \in WorkerData(t) :
      /\ \A p \in DOMAIN hostBufs : Owner(p) # t
      /\ allocate_byte_array(t, data)

\* let read_data = std::slice::from_raw_parts(ptr, size)
WorkerRead ==
  \E t \in Threads, ptr \in DOMAIN hostBufs :
    /\ ~aborted /\ ~ub
    /\ frame[t].pc = "idle"
    /\ Owner(ptr) = t
    /\ call' = [Called(t, "read_data", ptr, NULL)
                 EXCEPT !.msg = ReadBytes(mem, ptr, Len(hostBufs[ptr]))]
    /\ UNCHANGED <<mem, allocated, strings, LAST_ERROR, frame, hostBufs, aborted, ub>>

\* free_bytes(ptr)
WorkerFree ==
  \E t \in Threads, ptr \in DOMAIN hostBufs : Owner(ptr) = t /\ free_bytes(t, ptr)

\* date-times the host passes to to_unix_time: month starts and ends in
\* leap and common years, components out of their documented ranges, and
\* one far date, 584556019-04-03 14:25:52
DateInputs ==
  LET TimeYears == {1970, 1972, 2000, 2023, 2037}
      MonthsAndDays == {<<1, 1>>, <<2, 28>>, <<2, 29>>, <<3, 1>>, <<12, 31>>}
      TimesOfDay == {<<0, 0, 0>>, <<23, 59, 59>>}
      FAR_DATE == <<584556019, 4, 3, 14, 25, 52>>
  IN {<<y, md[1], md[2], tod[1], tod[2], tod[3]>> :
        y \in TimeYears, md \in MonthsAndDays, tod \in TimesOfDay}
     \cup {<<2000, m, 1, 0, 0, 0>> : m \in {0, 13, 14}}
     \cup {<<2000, 1, d, 0, 0, 0>> : d \in {0, 32}}
     \cup {<<2000, 1, 1, 24, 60, 60>>, <<1969, 12, 31, 23, 59, 59>>, FAR_DATE}

CallToUnixTime ==
  \E t \in Threads, d \in DateInputs, milliseconds \in BOOLEAN :
    to_unix_time(t, d[1], d[2], d[3], d[4], d[5], d[6], milliseconds)

\* from_unix_time_ffi on the epoch, 2000-02-29 12:34:56, one second and one
\* day before the epoch, i64::MAX and i64::MIN, in seconds and milliseconds,
\* with no, one or all out pointers null
CallFromUnixTimeFfi ==
  \E t \in Threads, milliseconds \in BOOLEAN,
     timestamp \in {NumOf(0), NumOf(951827696), NumOf(0 - 1), NumOf(0 - 86400),
                    Num(FALSE, MagTrim(MagSub(TWO.p63, <<1>>, 0))), Num(TRUE, TWO.p63)},
     nulls \in {{}, {1}, {2}, {6}, 1..6} :
    from_unix_time_ffi(t, timestamp, milliseconds, nulls)

\* time.rs: the host converting date-times
TimeNext ==
  \/ CallToUnixTime
  \/ CallFromUnixTimeFfi

TimeSpec == Init /\ [][TimeNext]_vars

ConcNext ==
  \/ WorkerAllocate
  \/ StepWriteLength
  \/ StepWriteTotal
  \/ StepCopyReturn
  \/ WorkerRead
  \/ WorkerFree
  \/ StepDealloc

ConcSpec == Init /\ [][ConcNext]_vars

-----------------------------------------------------------------------------
\* Properties of the buffer ownership protocol (checked under Spec)

\* the block allocate_byte_array must have allocated for a buffer of n bytes
\* whose data pointer is p
ExpectedBlock(p, n) ==
  [addr |-> p - 2 * USIZE, size |-> 2 * USIZE + n, align |-> ALIGN_OF_USIZE]

Quiescent == \A t \in Threads : frame[t].pc = "idle"

\* C1: from the return of allocate_byte_array(b) until the pointer is passed
\* to free_bytes, the data region at the returned pointer holds exactly the
\* bytes of b, in order, whatever other threads do in between.
C1_DataPreserved ==
  \A p \in DOMAIN hostBufs :
    \A i \in 1..Len(hostBufs[p]) : mem[p + i - 1] = hostBufs[p][i]

C1_Witness ==
  \E p, q \in DOMAIN hostBufs :
    /\ hostBufs[p] = <<>>
    /\ hostBufs[q] = <<255, 0>>
    /\ ReadBytes(mem, q, 2) = <<255, 0>>

\* C2: the two words in front of a returned pointer hold data_length = len(b)
\* and total_size = 2 * size_of(usize) + len(b) for as long as the host holds
\* the buffer.
C2_HeaderWords ==
  \A p \in DOMAIN hostBufs :
    /\ ReadWord(mem, p - 2 * USIZE) = Len(hostBufs[p])
    /\ ReadWord(mem, p - USIZE) = 2 * USIZE + Len(hostBufs[p])

C2_Witness ==
  \E p \in DOMAIN hostBufs :
    /\ Len(hostBufs[p]) = 2
    /\ call.op = "free_bytes"
    /\ call.arg # NULL
    /\ call.arg # p

\* C3: free_bytes(p) releases the block that starts at p - 2 * size_of(usize),
\* with the size and alignment it was allocated with, and that size is the
\* value of the second header word.
C3_FreeReleasesOriginalLayout ==
  [][(call'.op = "free_bytes" /\ call'.arg # NULL) =>
       \E b \in allocated :
         /\ b.addr = call'.arg - 2 * USIZE
         /\ b.size = ReadWord(mem, call'.arg - USIZE)
         /\ b.align = ALIGN_OF_USIZE
         /\ allocated' = allocated \ {b}
         /\ ~ub']_vars

C3_Witness ==
  /\ call.op = "free_bytes"
  /\ call.arg # NULL
  /\ ~ub
  /\ DOMAIN hostBufs # {}
  /\ call.arg \notin DOMAIN hostBufs

\* C4: when the host frees every returned pointer exactly once, the blocks of
\* the buffers it holds are always allocated, no free_bytes call leaves the
\* allocator's contract, and between calls the allocated blocks are exactly
\* the blocks of the buffers returned and not yet freed (none when the host
\* holds none).
C4_AllocatedIsLive ==
  /\ ~ub
  /\ \A p \in DOMAIN hostBufs : ExpectedBlock(p, Len(hostBufs[p])) \in allocated
  /\ Quiescent =>
       allocated = {ExpectedBlock(p, Len(hostBufs[p])) : p \in DOMAIN hostBufs}

C4_Witness ==
  /\ call.op = "free_bytes"
  /\ call.arg # NULL
  /\ Quiescent
  /\ DOMAIN hostBufs = {}
  /\ allocated = {}

\* C5: allocate_byte_array never returns null: what it returns is the data
\* pointer of a live block of 2 * size_of(usize) + len bytes (header only for
\* the empty input), and when alloc fails the call panics and nothing returns.
C5_NeverReturnsNull ==
  /\ call.op = "allocate_byte_array" =>
       /\ call.ret # NULL
       /\ call.ret \in DOMAIN hostBufs
       /\ ExpectedBlock(call.ret, Len(hostBufs[call.ret])) \in allocated
  /\ aborted => call.op = "allocate_byte_array:panic"

C5_Witness ==
  /\ call.op = "allocate_byte_array"
  /\ call.ret # NULL
  /\ hostBufs[call.ret] = <<>>
  /\ ExpectedBlock(call.ret, 0) \in allocated

\* C6: free_bytes(null) and free_string(null) change nothing: the heap, the
\* allocated blocks, the live strings, every error slot and every call in
\* progress are what they were.
C6_NullFreeIsNoOp ==
  [][(call'.op \in {"free_bytes", "free_string"} /\ call'.arg = NULL) =>
       UNCHANGED <<mem, allocated, strings, LAST_ERROR, frame, hostBufs, aborted, ub>>]_vars

C6_Witness ==
  /\ call.op \in {"free_bytes", "free_string"}
  /\ call.arg = NULL
  /\ DOMAIN hostBufs # {}
  /\ DOMAIN strings # {}
  /\ \E t \in Threads : LAST_ERROR[t].some

\* C25: the steps of allocate_byte_array, free_bytes and free_string leave
\* every thread's error slot as it is, and free_bytes(p) and free_string(p)
\* leave every other live buffer (its two header words and its data, in
\* memory and as the host knows it) and every other live string unchanged.
C25_OnlyOwnBlock ==
  [][LET AllocatorSteps ==
           {"allocate_byte_array:alloc", "allocate_byte_array:hdr0",
            "allocate_byte_array:hdr1", "allocate_byte_array",
            "allocate_byte_array:panic", "free_bytes:read", "free_bytes", "free_string"}
         OthersKept(p) ==
           /\ \A q \in DOMAIN hostBufs \ {p} :
                /\ q \in DOMAIN hostBufs' /\ hostBufs'[q] = hostBufs[q]
                /\ \A x \in fb_header_ptr(q)..(q + Len(hostBufs[q]) - 1) : mem'[x] = mem[x]
           /\ \A q \in DOMAIN strings \ {p} :
                q \in DOMAIN strings' /\ strings'[q] = strings[q]
     IN /\ call'.op \in AllocatorSteps => LAST_ERROR' = LAST_ERROR
        /\ call'.op \in {"free_bytes:read", "free_bytes"} =>
             OthersKept(call'.arg) /\ strings' = strings
        /\ call'.op = "free_string" =>
             OthersKept(call'.arg) /\ hostBufs' = hostBufs /\ mem' = mem]_vars

\* free_bytes(p) has returned while the host holds another buffer and a
\* string, and a thread's slot holds a message
C25_Witness ==
  /\ call.op = "free_bytes" /\ call.arg # NULL
  /\ DOMAIN hostBufs # {}
  /\ DOMAIN strings # {}
  /\ \E t \in Threads : LAST_ERROR[t].some

\* C16: the block of every buffer, returned or still being built, starts at
\* a multiple of align_of(usize), and so does every returned data pointer
\* (the block start plus 2 * size_of(usize)), for every data length.
C16_HeaderAndDataAligned ==
  /\ \A p \in DOMAIN hostBufs :
       /\ p % ALIGN_OF_USIZE = 0
       /\ (p - 2 * USIZE) % ALIGN_OF_USIZE = 0
  /\ \A t \in InFlight : frame[t].ptr % ALIGN_OF_USIZE = 0

\* a buffer of one byte and a buffer of no bytes, both returned
C16_Witness ==
  \E p, q \in DOMAIN hostBufs :
    /\ Len(hostBufs[p]) = 1 /\ Len(hostBufs[q]) = 0
    /\ p % 8 = 0 /\ q % 8 = 0
    /\ call.op = "allocate_byte_array"

\* C14: with worker threads running allocate_byte_array, a read of their
\* buffer and free_bytes concurrently, each on its own buffers: a step of one
\* thread changes no byte of the block (header and data) of a buffer another
\* thread holds or is still building and leaves that block allocated; every
\* read returns exactly the bytes the reader allocated; and each free_bytes
\* releases the block of the freed buffer and no other.
C14_ConcurrentWorkersIndependent ==
  [][/\ \A p \in DOMAIN hostBufs :
          Owner(p) # call'.t =>
            /\ p \in DOMAIN hostBufs' /\ hostBufs'[p] = hostBufs[p]
            /\ ExpectedBlock(p, Len(hostBufs[p])) \in allocated'
            /\ \A x \in Extent(ExpectedBlock(p, Len(hostBufs[p]))) : mem'[x] = mem[x]
     /\ \A u \in InFlight :
          u # call'.t =>
            /\ frame'[u] = frame[u]
            /\ \A x \in frame[u].ptr..(frame[u].ptr + frame[u].total_size - 1) :
                 mem'[x] = mem[x]
     /\ call'.op = "read_data" => call'.msg = hostBufs[call'.arg]
     /\ (call'.op = "free_bytes" /\ call'.arg # NULL) =>
          /\ ~ub'
          /\ \E b \in allocated :
               b.addr = call'.arg - 2 * USIZE /\ allocated' = allocated \ {b}]_vars

\* worker B reads its two bytes back while worker A holds a buffer
C14_Witness ==
  /\ call.op = "read_data"
  /\ call.t = "B"
  /\ call.msg = <<255, 255>>
  /\ \E p \in DOMAIN hostBufs : Owner(p) = "A"

-----------------------------------------------------------------------------
\* Properties of the error channel (checked under ErrSpec)

\* C7 (as claimed): after set_error(m) the slot holds m, and get_last_error
\* returns a non-null string equal to the message in the slot, for every m.
C7_SetThenGet ==
  /\ call.op = "set_error" => LAST_ERROR[call.t] = Some(call.msg)
  /\ (call.op = "get_last_error" /\ LAST_ERROR[call.t].some) =>
       /\ call.ret # NULL
       /\ call.ret \in DOMAIN strings
       /\ strings[call.ret] = LAST_ERROR[call.t].msg

\* C8 (as claimed): get_last_error returns null if and only if the calling
\* thread's slot is empty.
C8_NullIffEmpty ==
  call.op = "get_last_error" => (call.ret = NULL <=> ~LAST_ERROR[call.t].some)

\* C9: a step taken by one thread leaves the error slot of every other thread
\* as it was, so what get_last_error reads on a thread is only what that
\* thread stored.
C9_ThreadIsolation ==
  [][\A t \in Threads : t # call'.t => LAST_ERROR'[t] = LAST_ERROR[t]]_vars

C9_Witness ==
  /\ LAST_ERROR["A"] = Some(MSG.A_ERROR)
  /\ call.t = "B"
  /\ call.op = "clear_error"

\* C10 (as claimed): when an exported operation returns successfully, the
\* calling thread's error slot is empty.
C10_SuccessClearsSlot ==
  (call.op \in {"string_to_base64", "url_encode"} /\ call.ret # NULL) =>
    ~LAST_ERROR[call.t].some

\* C11 (as claimed): when url_encode or url_decode returns null, the
\* calling thread's slot holds a message and get_last_error called next on
\* that thread returns it (non-null).
C11_NullReturnSetsError ==
  (call.op \in {"url_encode", "url_decode"} /\ call.ret = NULL) =>
    /\ LAST_ERROR[call.t].some
    /\ ~gle_result(LAST_ERROR[call.t]).null

\* C24 (as claimed): an exported operation clears the calling thread's slot
\* before its first check and again when it succeeds, so a message the slot
\* holds when the operation returns was set by this very call: after a
\* successful call the slot is empty, and after a failed one it holds the
\* call's own message, never one that set_error or an earlier call left.
C24_NoStaleMessage ==
  (call.op \in {"string_to_base64", "url_encode"} /\ LAST_ERROR[call.t].some) =>
    /\ call.ret = NULL
    /\ LAST_ERROR[call.t].msg \notin Messages

\* C12 (as claimed): get_last_error and free_string leave every slot as it
\* is, and each get_last_error on a slot holding m returns a fresh string,
\* not one the host already holds, whose content equals m.
C12_GetReturnsIndependentCopy ==
  [][/\ call'.op \in {"get_last_error", "free_string"} => LAST_ERROR' = LAST_ERROR
     /\ (call'.op = "get_last_error" /\ LAST_ERROR[call'.t].some) =>
          /\ call'.ret # NULL
          /\ call'.ret \notin DOMAIN strings
          /\ call'.ret \in DOMAIN strings'
          /\ strings'[call'.ret] = LAST_ERROR[call'.t].msg]_vars

\* C13: clear_error leaves the calling thread's slot empty whatever it held,
\* so that get_last_error has nothing to return; a clear_error directly after
\* a clear_error of the same thread changes nothing; and get_last_error on an
\* empty slot returns null and allocates nothing.
C13_ClearIsIdempotent ==
  [][/\ call'.op = "clear_error" =>
          /\ ~LAST_ERROR'[call'.t].some
          /\ gle_result(LAST_ERROR'[call'.t]).null
     /\ (call.op = "clear_error" /\ call'.op = "clear_error" /\ call'.t = call.t) =>
          LAST_ERROR' = LAST_ERROR
     /\ (call'.op = "get_last_error" /\ ~LAST_ERROR[call'.t].some) =>
          /\ call'.ret = NULL
          /\ strings' = strings]_vars

\* the host holds a copy of "A-error" it got from get_last_error, and the
\* slot it came from has just been cleared
C13_Witness ==
  /\ call.op = "clear_error"
  /\ ~LAST_ERROR[call.t].some
  /\ \E p \in DOMAIN strings : strings[p] = MSG.A_ERROR
  /\ \E t \in Threads : t # call.t /\ LAST_ERROR[t].some

\* C19 (as claimed): for an input made only of ASCII letters, digits and the
\* characters '-', '_', '.', '~', the string url_encode returns equals the
\* input.
C19_UnreservedUnchanged ==
  (/\ call.op = "url_encode"
   /\ call.ret # NULL
   /\ \A i \in DOMAIN call.msg :
        call.msg[i] \in (48..57) \cup (65..90) \cup (97..122) \cup {45, 95, 46, 126}) =>
    strings[call.ret] = call.msg

-----------------------------------------------------------------------------
\* Properties of the time conversions (checked under TimeSpec)

\* the claim's valid date-times: year >= 1970, month in 1..12, a day of that
\* month and year, hour in 0..23, minute and second in 0..59
ValidDate(d) ==
  /\ d[1] >= 1970
  /\ d[2] \in 1..12
  /\ d[3] >= 1 /\ d[3] <= days_in_month(d[1])[d[2]]
  /\ d[4] \in 0..23 /\ d[5] \in 0..59 /\ d[6] \in 0..59

\* C15 (as claimed): a call of to_unix_time with a date component outside
\* its documented range returns a value; it does not panic.
C15_NoPanicOnInvalidInput ==
  ~(call.op = "to_unix_time:panic" /\ ~ValidDate(call.msg))

\* C18 (as claimed): for a valid date-time d and both values of the
\* milliseconds flag, to_unix_time(d, ms) returns and
\* from_unix_time(to_unix_time(d, ms), ms) = d.
C18_RoundTrip ==
  (call.op \in {"to_unix_time", "to_unix_time:panic"} /\ ValidDate(call.msg)) =>
    /\ call.op = "to_unix_time"
    /\ \A overflow_checks \in BOOLEAN :
         from_unix_time_outcome(call.ret, call.msg[7] = 1, overflow_checks)
           = Returns([i \in 1..6 |-> NumOf(call.msg[i])])

\* C23 (as claimed): from_unix_time_ffi returns false exactly when one of
\* its out pointers is null, and then stores nothing; otherwise it returns
\* true and stores the components from_unix_time returns.
C23_FfiNullOrStored ==
  call.op \in {"from_unix_time_ffi", "from_unix_time_ffi:panic"} =>
    IF call.msg[3] # {}
    THEN call.op = "from_unix_time_ffi" /\ call.ret = FALSE /\ call.msg[4] = <<>>
    ELSE /\ call.op = "from_unix_time_ffi"
         /\ call.ret = TRUE
         /\ \E overflow_checks \in BOOLEAN :
              from_unix_time_outcome(call.msg[1], call.msg[2], overflow_checks)
                = Returns(call.msg[4])

\* C26 (as claimed): the components from_unix_time_ffi stores lie in their
\* documented ranges: month 1..12, day 1..31, hour 0..23, minute and second
\* 0..59.
C26_ComponentsInRange ==
  LET Within(x, lo, hi) ==
        ~x.neg /\ ~MagLess(x.mag, MagOf(lo)) /\ ~MagLess(MagOf(hi), x.mag)
  IN (call.op = "from_unix_time_ffi" /\ call.ret = TRUE) =>
       /\ Within(call.msg[4][2], 1, 12)
       /\ Within(call.msg[4][3], 1, 31)
       /\ Within(call.msg[4][4], 0, 23)
       /\ Within(call.msg[4][5], 0, 59)
       /\ Within(call.msg[4][6], 0, 59)

\* C27 (as claimed): every call of to_unix_time and of from_unix_time runs
\* to completion.
C27_RunsToCompletion ==
  call.op \notin {"to_unix_time:panic", "from_unix_time_ffi:panic"}

-----------------------------------------------------------------------------
\* Properties of bytes_to_string_lenient (checked under LenientSpec)

\* the encoding names convert_bytes_to_string knows
SupportedEncoding(name) ==
  \E e \in {ENC.UTF8, ENC.UTF_8, ENC.ASCII, ENC.UNICODE, ENC.UTF16, ENC.UTF_16, ENC.UTF32,
             ENC.UTF_32, ENC.BIGENDIANUNICODE, ENC.UTF16BE, ENC.UTF_16BE, ENC.DEFAULT,
             ENC.ISO_8859_1, ENC.LATIN1, ENC.LATIN_1} : EqIgnoreAsciiCase(name, e)

\* C20 (as claimed): bytes_to_string_lenient, called with a non-null byte
\* array of length > 0 and the name of a supported encoding, returns a
\* non-null string and leaves the caller's error slot empty.
C20_LenientNeverFails ==
  (/\ call.op = "bytes_to_string_lenient"
   /\ ~call.msg[1].null /\ call.msg[2] > 0
   /\ ~call.msg[3].null /\ SupportedEncoding(call.msg[3].bytes))
    => (call.ret # NULL /\ ~LAST_ERROR[call.t].some)

-----------------------------------------------------------------------------
\* Properties of the operations that return bytes (checked under BytesSpec)

\* the outcomes the operation of a call record has on the record's arguments
OutcomesOf(c) ==
  LET args == c.msg[1]
  IN IF c.op \in {"string_to_bytes", "string_to_bytes:alloc", "string_to_bytes:panic"}
     THEN string_to_bytes(args[1], args[2])
     ELSE IF c.op \in {"base64_to_bytes", "base64_to_bytes:alloc", "base64_to_bytes:panic"}
     THEN base64_to_bytes(args[1])
     ELSE compress_string(args[1], args[2])

\* C17: string_to_bytes, base64_to_bytes and compress_string return null
\* only on a failure of the conversion, whether out_length is null or not;
\* on that return the error slot is set and 0 was written through a non-null
\* out_length and nothing through a null one.  A conversion that succeeds
\* goes on to allocate_byte_array, with nothing written through a null
\* out_length.
C17_FailureWritesZero ==
  /\ call.op \in {"string_to_bytes", "base64_to_bytes", "compress_string"} =>
       /\ call.ret = NULL
       /\ \E r \in OutcomesOf(call) : ~r.ok /\ LAST_ERROR[call.t] = Some(r.val)
       /\ call.msg[2] = (IF call.arg = NULL THEN <<>> ELSE <<0>>)
  /\ call.op \in {"string_to_bytes:alloc", "base64_to_bytes:alloc", "compress_string:alloc",
                  "string_to_bytes:panic", "base64_to_bytes:panic", "compress_string:panic"} =>
       /\ \E r \in OutcomesOf(call) : r.ok
       /\ call.arg = NULL => call.msg[2] = <<>>

\* a failed call that was given a length variable, and wrote 0 to it
C17_Witness ==
  /\ call.op \in {"string_to_bytes", "base64_to_bytes", "compress_string"}
  /\ call.arg = OUT_LENGTH
  /\ call.ret = NULL
  /\ call.msg[2] = <<0>>

-----------------------------------------------------------------------------
\* The error channel after the operations of the base64, encoding,
\* compression and hash modules

\* C28: when one of the sixteen operations has returned, the calling
\* thread's slot holds a message if and only if the operation returned
\* null.  The three operations that return bytes return their buffer from
\* the last step of allocate_byte_array.
C28_SlotIffNull ==
  /\ call.op \in {"string_to_base64", "base64_to_string", "base64_to_string_lenient",
                  "bytes_to_base64", "base64_to_bytes", "string_to_bytes",
                  "bytes_to_string", "bytes_to_string_lenient", "compress_string",
                  "decompress_string", "decompress_string_lenient",
                  "base64_to_decompressed_string",
                  "base64_to_decompressed_string_lenient", "compute_hash",
                  "compute_hmac_with_encoding", "compute_hmac_bytes"} =>
       (LAST_ERROR[call.t].some <=> call.ret = NULL)
  /\ (call.op = "allocate_byte_array" /\ call.ret # NULL) => ~LAST_ERROR[call.t].some

\* decompress_string has failed on bytes that are no gzip member while the
\* host holds the string of an earlier, successful call
C28_Witness ==
  /\ call.op = "decompress_string" /\ call.ret = NULL
  /\ LAST_ERROR[call.t] = Some(MSG.GZ_DECODE)
  /\ DOMAIN strings # {}

-----------------------------------------------------------------------------
\* The two kinds of pointer handed to the host

====
